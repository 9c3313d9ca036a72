--------------------------- MODULE RouteContract ---------------------------
(***************************************************************************)
(* What registration and lookup promise, stated on the set of registered   *)
(* patterns (specification/routing.md sections 3 to 7), and the properties *)
(* that hold the trees of RouteTree and the walks of RouteLookup to it.    *)
(***************************************************************************)
EXTENDS RouteLookup

CONSTANT HintFamilies   \* sets of patterns whose trailing-slash hints are predictable

-----------------------------------------------------------------------------
(* Matching, pattern by pattern.                                           *)

\* The params captured when pattern p matches request path q: a set of at most
\* one sequence of (token, value) pairs.  A catch-all value keeps its '/'.
RECURSIVE Captures(_, _, _)
Captures(p, q, ci) ==
    LET prepend(token, value, S) == {<<<<<<token>>, value>>>> \o s : s \in S}
        end == SegmentEnd(q)
    IN  CASE p = <<>> -> IF q = <<>> THEN {<<>>} ELSE {}
          [] p # <<>> /\ q = <<>> -> {}
          [] p # <<>> /\ q # <<>> /\ Len(p) = 2 /\ p[Len(p)] \in CatchAlls ->
               IF q[1] = Slash THEN {<<<<<<p[2]>>, q>>>>} ELSE {}
          [] p # <<>> /\ q # <<>> /\ p[1] \in Params \cup Regexes ->
               IF end = 0 \/ (p[1] \in Regexes /\ ~ Accepts(p[1], Upto(q, end))) THEN {}
               ELSE prepend(p[1], Upto(q, end), Captures(Tail(p), From(q, end + 1), ci))
          [] OTHER -> IF foldEq(q[1], p[1], ci) THEN Captures(Tail(p), Tail(q), ci) ELSE {}

\* Rule 48: at the first place two patterns differ, the literal outranks the wildcard.
Outranks(p, q) ==
    LET k == longestCommonPrefix(p, q) + 1
    IN  k <= Len(p) /\ k <= Len(q) /\ p[k] \notin Wildcards /\ q[k] \in Wildcards

Matching(R, q, ci) == {r \in R : Captures(r[1], q, ci) # {}}
Best(R, q, ci) ==
    {r \in Matching(R, q, ci) : \A o \in Matching(R, q, ci) : ~ Outranks(o[1], r[1])}

\* The same path with its trailing '/' added or removed (rule 52).
Toggled(q) == IF Last(q) = Slash THEN Front(q) ELSE Append(q, Slash)

-----------------------------------------------------------------------------
(* Registration, pattern by pattern.                                       *)

\* The patterns an optional segment expands to, in registration order.
RECURSIVE Expansions(_)
Expansions(p) ==
    LET k == CHOOSE k \in OptionalAt(p) : IsFirst(k, OptionalAt(p))
    IN  IF OptionalAt(p) = {} THEN <<p>>
        ELSE Expansions(WithoutOptional(p, k)) \o Expansions(WithOptional(p, k))

\* Rules 66, 67, 69, 70, 95, 103, 104.
Malformed(p) ==
    \/ Cardinality(OptionalAt(p)) > MaxOptionals
    \/ \E k \in OptionalAt(p) : k + 1 \in OptionalAt(p)
    \/ \E k \in 1..Len(p) : p[k] \in BadTokens
    \/ \E k \in 1..Len(p) : p[k] \in CatchAlls /\ (k # Len(p) \/ p[k - 1] # Slash)

\* Rules 65, 68, 71 and 79: the same route, two wildcards at one position, or
\* a catch-all beside anything that continues with its '/'.
IsCatchAll(p) == p[Len(p)] \in CatchAlls
TakesOver(p, q) ==
    /\ IsCatchAll(p) /\ Len(q) >= Len(p) - 1
    /\ Upto(q, Len(p) - 1) = Upto(p, Len(p) - 1)
Conflict(p, q) ==
    LET k == longestCommonPrefix(p, q) + 1
    IN  \/ p = q
        \/ k <= Len(p) /\ k <= Len(q) /\ p[k] \in Wildcards /\ q[k] \in Wildcards
        \/ TakesOver(p, q) \/ TakesOver(q, p)

Refused(R, p) ==
    LET es == Expansions(p)
    IN  \/ Malformed(p)
        \/ \E k \in 1..Len(es) :
              \/ \E r \in R : Conflict(es[k], r[1])
              \/ \E j \in 1..(k - 1) : Conflict(es[k], es[j])

-----------------------------------------------------------------------------
(* Properties.                                                             *)

Published == {m \in Method : trees[m] # 0}

\* Mux.Walk on the published tree visits every route whose Handle has returned,
\* once, with the handler it was registered with, and nothing else: no
\* registration, accepted or refused, loses or duplicates another's route.
WalkExact ==
    \A m \in Method :
        LET visits == IF trees[m] = 0 THEN <<>> ELSE walk(Tree(trees[m]))
        IN  ToSet(visits) = routes[m] /\ Len(visits) = Cardinality(routes[m])

\* The shape every lookup relies on, in every published node: one index byte per
\* static child and in the children's order, the wildcard child last, no byte
\* twice, children in falling priority, and a priority that counts the routes
\* below.  Only the child of a parameter goes without an index byte.
WellIndexed(nd) ==
    LET kids == [k \in 1..Len(Children(slices, nd)) |-> nodes[Children(slices, nd)[k]]]
        ix == nd.indices
        leads(k) == IF kids[k].path = <<>> THEN ix[k] = Slash ELSE kids[k].path[1] = ix[k]
    IN  /\ \/ Len(kids) = Len(ix) + (IF nd.wildChild THEN 1 ELSE 0)
           \/ nd.nType \in {"param", "regexParam"} /\ ix = <<>> /\ Len(kids) = 1
        /\ \A j, k \in 1..Len(ix) : j < k => ix[j] # ix[k] /\ kids[j].priority >= kids[k].priority
        /\ \A k \in 1..Len(ix) : leads(k) /\ kids[k].nType = "static"
        /\ nd.wildChild => Last(kids).nType \in {"param", "regexParam", "wildcard"}
        /\ nd.priority = (IF Has(nd) THEN 1 ELSE 0)
                         + FoldFunction(LAMBDA k, acc : k.priority + acc, 0, kids)

RECURSIVE Reach(_)
Reach(id) == {id} \cup UNION {Reach(k) : k \in ToSet(Children(slices, nodes[id]))}

TreesIndexed ==
    \A m \in Published : \A id \in Reach(trees[m]) : WellIndexed(nodes[id])

\* The published trees hold the routes that were accepted, each once, and every
\* node of theirs has the shape lookups rely on, after any mix of accepted and
\* refused registrations (addRouteInternal, incrementChildPrio, walk).
TreesExact == WalkExact /\ TreesIndexed

\* A lookup returns the best matching registered pattern, with the params that
\* pattern captures, whatever the order of registration: path copying, splits,
\* priority reordering, the optimistic walk, backtracking and the rewound
\* params never change the answer (rules 48, 49, 72, 74, 76, 78, 98).
LookupIsBest(ci) ==
    pc = "idle" =>
    \A m \in Published : \A q \in RequestPaths :
        LET got == Lookup(Tree(trees[m]), q, ci)
            best == Best(routes[m], q, ci)
        IN  IF got.handler = NoHandler THEN best = {}
            ELSE /\ best = {<<got.pattern, got.handler>>}
                 /\ got.params \in Captures(got.pattern, q, ci)

\* The fast path for trees without wildcards answers as the general walk would,
\* redirect hint included (getValueStatic: "The semantics mirror getValue
\* exactly for static trees"), and maxParams never says static wrongly.
StaticAgrees ==
    pc = "idle" =>
    \A m \in Published :
        LET t == Tree(trees[m])
        IN  t.maxParams = 0 =>
              \A q \in RequestPaths : getValueStatic(t, q, FALSE) = getValue(t, q, FALSE)

\* getValueBacktrack enters no more nodes than the tree has, on any path and
\* however many forks it retries (rule 75).
BacktrackBounded ==
    pc = "idle" =>
    \A m \in Published :
        LET t == Tree(trees[m])
        IN  \A q \in RequestPaths :
              getValueBacktrack(t, q, NoParams, FALSE).entered <= NodeCount(t)

\* A lookup finds the best match and its params, the static fast path gives the same
\* answer as the general walk, and the retries of one lookup are bounded by the tree.
LookupCorrect == LookupIsBest(FALSE) /\ StaticAgrees /\ BacktrackBounded

\* Among routes of one of the HintFamilies, a path without a handler gets the
\* trailing-slash hint exactly if the toggled path has one, except that a catch-all
\* right after a parameter gives no hint for the path without its '/': the redirects
\* dispatch decides on (Dispatch!tsr) lead to a handler.
AfterParam(p) == Len(p) > 2 /\ IsCatchAll(p) /\ p[Len(p) - 2] \in Params
TsrHinted ==
    pc = "idle" =>
    \A m \in Published : \A q \in RequestPaths \ {<<Slash>>} :
        LET got == Lookup(Tree(trees[m]), q, FALSE)
            hinting == {r \in routes[m] : Last(q) = Slash \/ ~ AfterParam(r[1])}
        IN  /\ \E F \in HintFamilies : {r[1] : r \in routes[m]} \subseteq F
            /\ got.handler = NoHandler
            => (got.tsr <=> Matching(hinting, Toggled(q), FALSE) # {})

\* A registration panics exactly when its pattern is malformed or conflicts with
\* a pattern already registered for the method, so what is accepted does not
\* depend on the order of registration (rules 46, 62 to 71, 78, 79).
PanicsOnConflict ==
    [][pc # "idle" /\ pc' = "idle" =>
          (trees' = trees <=> Refused(routes[job.method], job.handler))]_vars

\* When no route matches, the trailing-slash hint is given exactly if the toggled
\* path has a handler (rule 52), so no redirect leads to a 404 and none is missed.
TsrExact ==
    pc = "idle" =>
    \A m \in Published : \A q \in RequestPaths \ {<<Slash>>} :
        LET got == Lookup(Tree(trees[m]), q, FALSE)
        IN  got.handler = NoHandler => (got.tsr <=> Matching(routes[m], Toggled(q), FALSE) # {})

\* With CaseInsensitive set, a path that equals a registered route up to letter
\* case is matched.
CaseFolded ==
    pc = "idle" =>
    \A m \in Published : \A q \in RequestPaths :
        Matching(routes[m], q, TRUE) # {} => Lookup(Tree(trees[m]), q, TRUE).handler # NoHandler
=============================================================================
