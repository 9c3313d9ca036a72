------------------------------- MODULE Groups -------------------------------
(***************************************************************************)
(* The registration interface: Use, UseFast, Group, With, Route, Handle    *)
(* and its variants, HandleFast, Match, Mount and ServeFiles of a Mux and  *)
(* of its Groups (group.go and mux.go).                                    *)
(*                                                                         *)
(* A Group carries a path prefix and two middleware slices.  Go slices     *)
(* share their backing array until append has to grow it, so the arrays    *)
(* are explicit: a group that inherits its parent's slice without a copy   *)
(* would have its middleware overwritten by the next append of a sibling,  *)
(* and routes would silently lose, say, their authentication.  wantStd and *)
(* wantFast are the same chains as plain values.                           *)
(***************************************************************************)
EXTENDS Naturals, Sequences, FiniteSets

CONSTANTS
    Slash,                    \* the byte '/'
    Prefixes, Paths,          \* what is passed to Group and Handle: byte sequences
    CatchAll,                 \* the element "*name"
    Methods,
    rawPathDecode,            \* UseRawPath && UnescapePathValues
    MaxUse, MaxUseFast, MaxGroups,   \* bounds: middleware and groups added
    MaxRoutes                 \* nothing is explored once there are so many routes

ASSUME BoundsAssumption ==
    /\ MaxUse \in Nat /\ MaxUseFast \in Nat /\ MaxGroups \in Nat /\ MaxRoutes \in Nat
    /\ Prefixes \cup Paths \subseteq Seq(STRING) /\ {Slash, CatchAll} \subseteq STRING
    /\ {"GET", "HEAD"} \subseteq Methods

VARIABLES
    arrays,   \* the backing arrays: their elements, 0 beyond the last one set
    owners,   \* 1 is the Mux, the others its groups: prefix and slices
    routes,   \* what was registered: method, pattern, kind, its middleware
    used, usedFast   \* the middleware values handed out so far

vars == <<arrays, owners, routes, used, usedFast>>

-----------------------------------------------------------------------------
(* Go slices.                                                              *)

Nil == [arr |-> 0, len |-> 0]
Elements(s) == IF s.arr = 0 THEN <<>> ELSE SubSeq(arrays[s.arr], 1, s.len)
Cap(s) == IF s.arr = 0 THEN 0 ELSE Len(arrays[s.arr])
Pad(elems, cap) == [k \in 1..cap |-> IF k <= Len(elems) THEN elems[k] ELSE 0]

\* append(s, x): in place while there is room, else into an array twice as long.
AppendTo(s, x) ==
    IF s.len < Cap(s)
    THEN [arrays |-> [arrays EXCEPT ![s.arr][s.len + 1] = x],
          slice |-> [s EXCEPT !.len = @ + 1]]
    ELSE [arrays |-> Append(arrays, Pad(Append(Elements(s), x),
                                        IF s.len = 0 THEN 1 ELSE 2 * s.len)),
          slice |-> [arr |-> Len(arrays) + 1, len |-> s.len + 1]]

\* make and copy: arrays a, with a new one that holds exactly elems.
CopyInto(a, elems) == IF elems = <<>> THEN a ELSE Append(a, elems)
CopySlice(a, elems) == IF elems = <<>> THEN Nil
                       ELSE [arr |-> Len(a) + 1, len |-> Len(elems)]

-----------------------------------------------------------------------------
(* The Mux and its groups.                                                 *)

Mux == 1
Ids == 1..Len(owners)
NewOwner(prefix, mw, fast, std, fst) ==
    [prefix |-> prefix, middleware |-> mw, fastMiddleware |-> fast,
     wantStd |-> std, wantFast |-> fst, parts |-> <<>>]

Init == /\ arrays = <<>> /\ routes = <<>> /\ used = 0 /\ usedFast = 0
        /\ owners = <<NewOwner(<<>>, Nil, Nil, <<>>, <<>>)>>

\* Mux.Use and Group.Use append to the owner's own slice.
Use(o) ==
    LET r == AppendTo(owners[o].middleware, used + 1)
    IN  /\ used < MaxUse /\ used' = used + 1
        /\ arrays' = r.arrays
        /\ owners' = [owners EXCEPT ![o].middleware = r.slice,
                                    ![o].wantStd = Append(@, used + 1)]
        /\ UNCHANGED <<routes, usedFast>>

UseFast(o) ==
    LET r == AppendTo(owners[o].fastMiddleware, usedFast + 1)
    IN  /\ usedFast < MaxUseFast /\ usedFast' = usedFast + 1
        /\ arrays' = r.arrays
        /\ owners' = [owners EXCEPT ![o].fastMiddleware = r.slice,
                                    ![o].wantFast = Append(@, usedFast + 1)]
        /\ UNCHANGED <<routes, used>>

\* Mutant: the slash of the right side is kept.
joinPlain(left, right) == left \o right

\* joinPrefix: one '/' where both sides bring one.
joinPrefix(left, right) ==
    IF left # <<>> /\ right # <<>> /\ left[Len(left)] = Slash /\ right[1] = Slash
    THEN left \o Tail(right) ELSE left \o right

\* Mux.Group (and Mux.Route): a prefix and no middleware.
MuxGroup(prefix) ==
    /\ owners' = Append(owners, [NewOwner(prefix, Nil, Nil, <<>>, <<>>)
                                 EXCEPT !.parts = <<prefix>>])
    /\ UNCHANGED <<arrays, routes, used, usedFast>>

\* Mutant: the sub-group starts with its parent's own slice.
SharesSlice(o, prefix) ==
    LET g == owners[o]
        a == CopyInto(arrays, Elements(g.fastMiddleware))
    IN  /\ arrays' = a
        /\ owners' = Append(owners,
              [NewOwner(joinPrefix(g.prefix, prefix), g.middleware,
                        CopySlice(arrays, Elements(g.fastMiddleware)),
                        g.wantStd, g.wantFast) EXCEPT !.parts = Append(g.parts, prefix)])
        /\ UNCHANGED <<routes, used, usedFast>>

\* Group.Group (and Group.Route): copies of both slices.
SubGroup(o, prefix) ==
    LET g == owners[o]
        a == CopyInto(arrays, Elements(g.middleware))
    IN  /\ arrays' = CopyInto(a, Elements(g.fastMiddleware))
        /\ owners' = Append(owners,
              [NewOwner(joinPrefix(g.prefix, prefix), CopySlice(arrays, Elements(g.middleware)),
                        CopySlice(a, Elements(g.fastMiddleware)), g.wantStd, g.wantFast)
               EXCEPT !.parts = Append(g.parts, prefix)])
        /\ UNCHANGED <<routes, used, usedFast>>

\* Mux.With and Group.With: the same prefix, one more middleware.  Mux.With has no
\* fast middleware of its own.
With(o) ==
    LET g == owners[o]
        std == IF o = Mux THEN <<used + 1>> ELSE Append(Elements(g.middleware), used + 1)
        fst == IF o = Mux THEN <<>> ELSE Elements(g.fastMiddleware)
        a == CopyInto(arrays, std)
    IN  /\ used < MaxUse /\ used' = used + 1
        /\ arrays' = CopyInto(a, fst)
        /\ owners' = Append(owners,
              [NewOwner(g.prefix, CopySlice(arrays, std), CopySlice(a, fst),
                        IF o = Mux THEN std ELSE Append(g.wantStd, used + 1),
                        IF o = Mux THEN <<>> ELSE g.wantFast)
               EXCEPT !.parts = g.parts])
        /\ UNCHANGED <<routes, usedFast>>

NewGroup == /\ Len(owners) <= MaxGroups
            /\ \/ \E prefix \in Prefixes : MuxGroup(prefix)
               \/ \E o \in Ids \ {Mux} : \E prefix \in Prefixes : SubGroup(o, prefix)
               \/ \E o \in Ids : With(o)

-----------------------------------------------------------------------------
(* Routes.                                                                 *)

Own(o, chain) == IF o = Mux THEN <<>> ELSE chain
Std(o)  == Elements(owners[Mux].middleware) \o Own(o, Elements(owners[o].middleware))
Fast(o) == Elements(owners[Mux].fastMiddleware) \o Own(o, Elements(owners[o].fastMiddleware))
WantStd(o)  == owners[Mux].wantStd \o Own(o, owners[o].wantStd)
WantFast(o) == owners[Mux].wantFast \o Own(o, owners[o].wantFast)

Pattern(o, path) == joinPrefix(owners[o].prefix, path)
Last(seq) == seq[Len(seq)]
HasCatchAll(pattern) == CatchAll \in {pattern[k] : k \in 1..Len(pattern)}

\* TrimRight(prefix, "/") and the internal catch-all.
TrimRight(p) ==
    LET n == CHOOSE n \in 0..Len(p) : /\ n > 0 => p[n] # Slash
                                      /\ \A k \in (n + 1)..Len(p) : p[k] = Slash
    IN  SubSeq(p, 1, n)
MountPattern(prefix) == TrimRight(prefix) \o <<Slash, CatchAll>>

Taken(rs, method, pattern) ==
    \E k \in 1..Len(rs) : rs[k].method = method /\ rs[k].pattern = pattern

Route(o, method, path, kind) ==
    [method |-> method, kind |-> kind,
     pattern |-> IF kind = "mount" THEN MountPattern(Pattern(o, path)) ELSE Pattern(o, path),
     parts |-> Append(owners[o].parts, path),
     chain |-> IF kind = "fast" THEN Fast(o) ELSE Std(o),
     want |-> IF kind = "fast" THEN WantFast(o) ELSE WantStd(o),
     bypassed |-> IF kind = "fast" THEN WantStd(o) ELSE <<>>]

\* Handle registers the k-th of the methods ms, and does not panic, once it has
\* registered those before: the pattern must be rooted and not taken.
Registered(o, ms, path, kind, k) ==
    LET r == Route(o, ms[k], path, kind)
    IN  /\ r.pattern # <<>> /\ r.pattern[1] = Slash
        /\ ~ Taken(routes, r.method, r.pattern) /\ \A j \in 1..(k - 1) : ms[j] # ms[k]

\* The methods ms are registered one after the other, up to the first that panics.
Add(o, ms, path, kind) ==
    /\ \E n \in 0..Len(ms) :
          /\ \A k \in 1..n : Registered(o, ms, path, kind, k)
          /\ n < Len(ms) => ~ Registered(o, ms, path, kind, n + 1)
          /\ routes' = routes \o [k \in 1..n |-> Route(o, ms[k], path, kind)]
    /\ UNCHANGED <<arrays, owners, used, usedFast>>

\* Handle, HandleFunc, HandleE and the methods named after HTTP methods.
Handle(o, method, path) == Add(o, <<method>>, path, "std")

\* Match and ANY: one Handle after the other.
Match(o, ms, path) == Add(o, ms, path, "std")

\* Mutant: only the group's own middleware is looked at.
HandleFastGroupOnly(o, method, path) ==
    /\ o = Mux \/ Elements(owners[o].middleware) = <<>>
    /\ Add(o, <<method>>, path, "fast")

\* HandleFast panics when the Mux or the group has stdlib middleware.
HandleFast(o, method, path) ==
    /\ Elements(owners[o].middleware) = <<>> /\ Elements(owners[Mux].middleware) = <<>>
    /\ Add(o, <<method>>, path, "fast")

\* Mount: method "*", the group's middleware around the mounted handler.  The joined
\* prefix must be rooted, and the tree refuses a second catch-all.
Mount(o, path) ==
    /\ Pattern(o, path) # <<>> /\ Pattern(o, path)[1] = Slash /\ ~ HasCatchAll(Pattern(o, path))
    /\ Add(o, <<"*">>, path, "mount")

\* ServeFiles: the joined prefix ends with "/*name"; refused when captured paths are
\* decoded (checkServeFilesRawPath).  GET, then HEAD.
ServeFiles(o, path) ==
    /\ ~ rawPathDecode
    /\ Len(Pattern(o, path)) > 1 /\ Last(Pattern(o, path)) = CatchAll
    /\ Pattern(o, path)[Len(Pattern(o, path)) - 1] = Slash
    /\ Add(o, <<"GET", "HEAD">>, path, "files")

Register(o, path) ==
    \/ \E m \in Methods : Handle(o, m, path) \/ HandleFast(o, m, path)
    \/ \E ms \in Methods \X Methods : Match(o, ms, path)
    \/ Mount(o, path)
    \/ ServeFiles(o, path)

Next == /\ Len(routes) < MaxRoutes
        /\ \/ \E o \in Ids : Use(o) \/ UseFast(o)
           \/ NewGroup
           \/ \E o \in Ids, path \in Paths : Register(o, path)

Spec == Init /\ [][Next]_vars

-----------------------------------------------------------------------------
(* Properties.                                                             *)

\* Every route runs exactly the middleware of the Mux and of its group's ancestors
\* and itself at the time it was registered, in that order, whatever siblings and
\* parents append before or after ("middleware added to either group afterwards
\* does not affect the other").  What each owner would give a route registered now
\* is held to it too.
ChainsExact ==
    /\ \A k \in 1..Len(routes) : routes[k].chain = routes[k].want
    /\ \A o \in Ids : /\ Elements(owners[o].middleware) = owners[o].wantStd
                      /\ Elements(owners[o].fastMiddleware) = owners[o].wantFast

\* No FastHandler is reachable where stdlib middleware was in force when it was
\* registered, on the Mux or on any enclosing group: it would run without it.
FastNeverBypasses == \A k \in 1..Len(routes) : routes[k].bypassed = <<>>

\* A path and what follows it, one '/' between them where both have one.
Joint(l, rest) == IF l # <<>> /\ rest # <<>> /\ l[Len(l)] = Slash /\ rest[1] = Slash
                  THEN SubSeq(l, 1, Len(l) - 1) \o rest ELSE l \o rest

\* The parts written one after the other, from the last one forwards.
Joined(parts) ==
    LET last[k \in 0..Len(parts)] ==
            IF k = 0 THEN <<>> ELSE Joint(parts[Len(parts) + 1 - k], last[k - 1])
    IN  last[Len(parts)]

\* A route's pattern does not depend on how its prefix was cut into nested groups:
\* it is the parts written out with one '/' at each joint, and so a prefix that
\* ends in '/' hides no route behind a "//" no client sends.
PatternsJoined ==
    \A k \in 1..Len(routes) :
        routes[k].pattern = IF routes[k].kind = "mount" THEN MountPattern(Joined(routes[k].parts))
                            ELSE Joined(routes[k].parts)
=============================================================================
