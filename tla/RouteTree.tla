----------------------------- MODULE RouteTree -----------------------------
(***************************************************************************)
(* Route registration (tree.go, and Handle/HandleFast of mux.go).          *)
(*                                                                         *)
(* A registration runs under Mux.mu and builds its tree by path copying,   *)
(* while requests walk the trees published through treesPtr without any    *)
(* lock.  What matters is therefore which memory each step of the walk     *)
(* writes: the heap of nodes and the heap of children slices are explicit, *)
(* and one action is one iteration of addRouteInternal's walk loop or of   *)
(* insertChild's loop.                                                     *)
(*                                                                         *)
(* A pattern is a sequence of symbols: '/', a letter, or one whole         *)
(* wildcard token (":name", "{name:expr}", "*name").  A wildcard token is  *)
(* atomic because the code never splits inside one: a wildcard node is     *)
(* entered only when its whole token is a prefix of the path.              *)
(***************************************************************************)
EXTENDS Naturals, Sequences, FiniteSets

CONSTANTS
    Slash,          \* the byte '/'
    Letters,        \* the other literal bytes
    Params,         \* the tokens ":name"
    Regexes,        \* the tokens "{name:expr}"
    CatchAlls,      \* the tokens "*name"
    BadTokens,      \* wildcards insertChild refuses: unnamed, unclosed, two in
                    \* a segment, an expression that does not compile
    Optionals,      \* the segments "{/:name}" and "{/:name:expr}"
    OptionalToken,  \* the wildcard token each optional segment stands for
    MaxOptionals,   \* maxOptionalSegments (8 in the code)
    Method,         \* the method trees in use
    Requests        \* the patterns passed to Handle

Wildcards == Params \cup Regexes \cup CatchAlls \cup BadTokens
Symbols   == {Slash} \cup Letters \cup Wildcards
Patterns  == Seq(Symbols \cup Optionals)
NoHandler == <<>>   \* handler == nil; a handler is named by its own pattern

ASSUME SymbolsAssumption ==
    /\ Slash \notin Letters \cup Wildcards \cup Optionals
    /\ Letters \cap Wildcards = {}
    /\ Optionals \cap Symbols = {}
    /\ OptionalToken \in [Optionals -> Params \cup Regexes]
    /\ MaxOptionals \in Nat
    /\ Method # {}
\* A parameter's or catch-all's name runs to the end of its segment.
ASSUME RequestsAssumption ==
    \A p \in Requests :
        /\ p \in Patterns /\ p # <<>> /\ p[1] = Slash
        /\ \A k \in 1..(Len(p) - 1) :
               p[k] \in Params \cup CatchAlls \cup Optionals =>
                   p[k + 1] \in {Slash} \cup Optionals

VARIABLES
    nodes,      \* the heap of tree nodes
    slices,     \* the heap of children slices (arrays of *node)
    trees,      \* *treesPtr: the published root of each method, 0 when nil
    mark,       \* heap sizes when treesPtr was last stored: what is published
    pc,         \* where the goroutine that holds mu is
    job,        \* its method, handler, private root and the routes added so far
    todo,       \* calls of addRouteInternal still to make on that root
    n, path, fullPath,  \* the locals of addRouteInternal and insertChild
    routes      \* history: per method, the patterns whose Handle has returned

heap == <<nodes, slices>>
locals == <<n, path, fullPath>>
vars == <<nodes, slices, trees, mark, pc, job, todo, n, path, fullPath, routes>>

NodeTypes == {"static", "root", "param", "wildcard", "regexParam"}
Node == [path: Seq(Symbols), indices: Seq(Symbols), children: Nat,
         wildChild: BOOLEAN, nType: NodeTypes, handler: Patterns,
         pattern: Patterns, priority: Nat, maxParams: Nat]

EmptyNode == [path |-> <<>>, indices |-> <<>>, children |-> 0,
              wildChild |-> FALSE, nType |-> "static", handler |-> NoHandler,
              pattern |-> <<>>, priority |-> 0, maxParams |-> 0]

NoJob == [method |-> CHOOSE m \in Method : TRUE, handler |-> NoHandler,
          root |-> 0, added |-> {}]

Init == /\ nodes = <<>> /\ slices = <<>>
        /\ trees = [m \in Method |-> 0]
        /\ mark = [nodes |-> 0, slices |-> 0]
        /\ pc = "idle" /\ job = NoJob /\ todo = <<>>
        /\ n = 0 /\ path = <<>> /\ fullPath = <<>>
        /\ routes = [m \in Method |-> {}]

-----------------------------------------------------------------------------
(* The pure helpers.                                                       *)

Smaller(a, b) == IF a < b THEN a ELSE b

longestCommonPrefix(a, b) ==
    Cardinality({k \in 1..Smaller(Len(a), Len(b)) : \A j \in 1..k : a[j] = b[j]})

\* The literal prefix before the first wildcard that findWildcard reports.
LiteralLen(p) == Cardinality({k \in 1..Len(p) : \A j \in 1..k : p[j] \notin Wildcards})

countPatternParams(p) == Cardinality({k \in 1..Len(p) : p[k] \in Wildcards})

From(p, k) == SubSeq(p, k, Len(p))
Upto(p, k) == SubSeq(p, 1, k)

\* The children slice of node nd in the slice heap ss; nil is empty.
Children(ss, nd) == IF nd.children = 0 THEN <<>> ELSE ss[nd.children]

\* Mutant: the copy shares the original's children slice.
CopySharesSlice(ss, nd) == nd

\* copyNode(nd): the copy, and the slice heap with the copy's own slice.
CopyNode(ss, nd) ==
    [nd EXCEPT !.children = IF nd.children = 0 THEN 0 ELSE Len(ss) + 1]
CopySlice(ss, nd) ==
    IF nd.children = 0 THEN ss ELSE Append(ss, ss[nd.children])

\* s with the element at pos moved left to position to.
MoveLeft(s, pos, to) ==
    [k \in 1..Len(s) |-> IF k = to THEN s[pos]
                         ELSE IF to < k /\ k <= pos THEN s[k - 1] ELSE s[k]]

-----------------------------------------------------------------------------
(* Handle and HandleFast: lock, copy the roots and the method's root.      *)

Handle(m, p) ==
    /\ pc = "idle"
    /\ IF trees[m] = 0
       THEN /\ nodes' = Append(nodes, EmptyNode)
            /\ slices' = slices
       ELSE /\ nodes' = Append(nodes, CopyNode(slices, nodes[trees[m]]))
            /\ slices' = CopySlice(slices, nodes[trees[m]])
    /\ job' = [method |-> m, handler |-> p, root |-> Len(nodes) + 1, added |-> {}]
    /\ todo' = <<p>>
    /\ pc' = "call"
    /\ UNCHANGED <<trees, mark, n, path, fullPath, routes>>

\* A panic unwinds to Handle's deferred Unlock: the copies become garbage and
\* treesPtr keeps the previous trees.
Panic ==
    /\ nodes' = Upto(nodes, mark.nodes)
    /\ slices' = Upto(slices, mark.slices)
    /\ pc' = "idle" /\ job' = NoJob /\ todo' = <<>>
    /\ n' = 0 /\ path' = <<>> /\ fullPath' = <<>>
    /\ UNCHANGED <<trees, mark, routes>>

-----------------------------------------------------------------------------
(* addRouteInternal before its walk.  todo is its recursion stack.         *)

\* Mutant: the scan for optional segments stops one short of the end.
OptionalAtButLast(p) == {k \in 1..(Len(p) - 1) : p[k] \in Optionals}
OptionalAt(p) == {k \in 1..Len(p) : p[k] \in Optionals}
IsFirst(k, S) == k \in S /\ \A j \in S : k <= j

\* expandOptional: the pattern without its first optional segment, which is at
\* k, and with it.
WithoutOptional(p, k) ==
    LET q == Upto(p, k - 1) \o From(p, k + 1)
    IN  IF q = <<>> THEN <<Slash>> ELSE q
WithOptional(p, k) ==
    Upto(p, k - 1) \o <<Slash, OptionalToken[p[k]]>> \o From(p, k + 1)

\* More optional segments than the limit, or the first two side by side.
BadOptionals(p) ==
    \/ Cardinality(OptionalAt(p)) > MaxOptionals
    \/ \E k \in OptionalAt(p) : IsFirst(k, OptionalAt(p)) /\ k + 1 \in OptionalAt(p)

Expand ==
    /\ pc = "call" /\ ~ BadOptionals(Head(todo))
    /\ \E k \in OptionalAt(Head(todo)) :
          /\ IsFirst(k, OptionalAt(Head(todo)))
          /\ todo' = <<WithoutOptional(Head(todo), k), WithOptional(Head(todo), k)>>
                       \o Tail(todo)
    /\ UNCHANGED <<heap, trees, mark, pc, job, locals, routes>>

ExpandPanics ==
    /\ pc = "call" /\ BadOptionals(Head(todo))
    /\ Panic

Enter ==
    LET r == job.root
        empty == nodes[r].path = <<>> /\ nodes[r].indices = <<>>
    IN  /\ pc = "call" /\ OptionalAt(Head(todo)) = {}
        /\ n' = r /\ path' = Head(todo) /\ fullPath' = Head(todo)
        /\ nodes' = [nodes EXCEPT ![r].priority = @ + 1,
                                  ![r].nType = IF empty THEN "root" ELSE @]
        /\ pc' = IF empty THEN "insert" ELSE "walk"
        /\ UNCHANGED <<slices, trees, mark, job, todo, routes>>

-----------------------------------------------------------------------------
(* One iteration of the walk loop.                                         *)

Common == longestCommonPrefix(path, nodes[n].path)

\* The part of the path below node n, once the whole of n.path is shared.
Below == From(path, Len(nodes[n].path) + 1)
AtBelow == pc = "walk" /\ Common = Len(nodes[n].path) /\ Len(path) > Common
c == path[Len(nodes[n].path) + 1]

cs == Children(slices, nodes[n])

\* The shortcut through the only child of a named parameter.
AtParamChild == nodes[n].nType = "param" /\ c = Slash /\ Len(cs) = 1

IndexOf(x) == {j \in 1..Len(nodes[n].indices) : nodes[n].indices[j] = x}

\* n.path is longer than what the two share: n keeps the shared part, and a
\* new child takes over the rest together with n's children slice.
SplitRest ==
    LET nd == nodes[n]
    IN  [EmptyNode EXCEPT !.path = From(nd.path, Common + 1),
                          !.wildChild = nd.wildChild,
                          !.indices = nd.indices,
                          !.children = nd.children,
                          !.handler = nd.handler,
                          !.priority = nd.priority - 1,
                          !.pattern = nd.pattern]
\* Mutant: the shortened node keeps its handler.
TopKeepsHandler ==
    LET nd == nodes[n]
    IN  [nd EXCEPT !.children = Len(slices) + 1, !.indices = <<nd.path[Common + 1]>>,
                   !.path = Upto(path, Common), !.wildChild = FALSE]
SplitTop ==
    LET nd == nodes[n]
    IN  [nd EXCEPT !.children = Len(slices) + 1,
                   !.indices = <<nd.path[Common + 1]>>,
                   !.path = Upto(path, Common),
                   !.handler = NoHandler,
                   !.pattern = <<>>,
                   !.wildChild = FALSE]
Split ==
    /\ pc = "walk" /\ Common < Len(nodes[n].path)
    /\ nodes' = [Append(nodes, SplitRest) EXCEPT ![n] = SplitTop]
    /\ slices' = Append(slices, <<Len(nodes) + 1>>)
    /\ UNCHANGED <<trees, mark, pc, job, todo, locals, routes>>

\* Go down to the child at pos: copy it, bump its priority, and write the copy
\* back into n's own slice.
Descend(pos) ==
    LET child == nodes[cs[pos]]
        copy == CopyNode(slices, child)
    IN  /\ nodes' = Append(nodes, [copy EXCEPT !.priority = @ + 1])
        /\ slices' = [CopySlice(slices, child) EXCEPT
                         ![nodes[n].children] = [cs EXCEPT ![pos] = Len(nodes) + 1]]
        /\ n' = Len(nodes) + 1

\* incrementChildPrio(pos) in the heaps ns and ss: as Descend, and then move
\* the child, and its index byte, left past the children of lower priority.
IncrementChildPrio(ns, ss, pos) ==
    LET kids == ss[ns[n].children]
        child == ns[kids[pos]]
        copy == CopyNode(ss, child)
        prio == child.priority + 1
        to == pos - Cardinality({k \in 1..(pos - 1) :
                        \A j \in k..(pos - 1) : ns[kids[j]].priority < prio})
        new == Len(ns) + 1
    IN  /\ nodes' = [Append(ns, [copy EXCEPT !.priority = prio]) EXCEPT
                         ![n].indices = MoveLeft(@, pos, to)]
        /\ slices' = [CopySlice(ss, child) EXCEPT
                         ![ns[n].children] = MoveLeft([kids EXCEPT ![pos] = new], pos, to)]
        /\ n' = new

DescendParam ==
    /\ AtBelow /\ AtParamChild
    /\ Descend(1)
    /\ path' = Below
    /\ UNCHANGED <<trees, mark, pc, job, todo, fullPath, routes>>

DescendStatic ==
    /\ AtBelow /\ ~ AtParamChild
    /\ \E j \in IndexOf(c) :
          /\ \A k \in IndexOf(c) : j <= k
          /\ IncrementChildPrio(nodes, slices, j)
    /\ path' = Below
    /\ UNCHANGED <<trees, mark, pc, job, todo, fullPath, routes>>

\* No child takes the byte c: what happens next depends on what c starts.
Unindexed == AtBelow /\ ~ AtParamChild /\ IndexOf(c) = {}

LastChild == nodes[cs[Len(cs)]]
CatchAllHere == nodes[n].wildChild /\ LastChild.nType = "wildcard"

\* The slice that append(n.children, ...) writes: n's own, or a new one for nil.
OwnSlice == IF nodes[n].children = 0 THEN Len(slices) + 1 ELSE nodes[n].children
SlicesWith(kids) == IF nodes[n].children = 0 THEN Append(slices, kids)
                    ELSE [slices EXCEPT ![nodes[n].children] = kids]

\* A new static child goes before the wildcard child, which stays last.
AddStatic ==
    LET fresh == Len(nodes) + 1
        kids == IF nodes[n].wildChild
                THEN Append([cs EXCEPT ![Len(cs)] = fresh], cs[Len(cs)])
                ELSE Append(cs, fresh)
    IN  /\ Unindexed /\ c \notin Wildcards /\ ~ CatchAllHere
        /\ IncrementChildPrio(
               [Append(nodes, EmptyNode) EXCEPT ![n].indices = Append(@, c),
                                                ![n].children = OwnSlice],
               SlicesWith(kids),
               Len(nodes[n].indices) + 1)
        /\ path' = Below
        /\ pc' = "insert"
        /\ UNCHANGED <<trees, mark, job, todo, fullPath, routes>>

AddStaticPanics ==
    /\ Unindexed /\ c \notin Wildcards /\ CatchAllHere
    /\ Panic

\* The wildcard already here must be the same token, and not a catch-all.
SameWildcard ==
    /\ LastChild.nType # "wildcard"
    /\ LastChild.path = Upto(Below, Len(LastChild.path))
    /\ Len(Below) > Len(LastChild.path) => Below[Len(LastChild.path) + 1] = Slash

DescendWild ==
    /\ Unindexed /\ c \in Wildcards /\ nodes[n].wildChild
    /\ SameWildcard
    /\ Descend(Len(cs))
    /\ path' = Below
    /\ UNCHANGED <<trees, mark, pc, job, todo, fullPath, routes>>

DescendWildPanics ==
    /\ Unindexed /\ c \in Wildcards /\ nodes[n].wildChild
    /\ ~ SameWildcard
    /\ Panic

AddWild ==
    /\ Unindexed /\ c \in Wildcards /\ ~ nodes[n].wildChild
    /\ path' = Below
    /\ pc' = "insert"
    /\ UNCHANGED <<heap, trees, mark, job, todo, n, fullPath, routes>>

\* The path ends at node n.
SetHandler ==
    /\ pc = "walk" /\ Common = Len(nodes[n].path) /\ Common = Len(path)
    /\ nodes[n].handler = NoHandler
    /\ nodes' = [nodes EXCEPT ![n].handler = job.handler, ![n].pattern = fullPath]
    /\ pc' = "return"
    /\ UNCHANGED <<slices, trees, mark, job, todo, locals, routes>>

SetHandlerPanics ==
    /\ pc = "walk" /\ Common = Len(nodes[n].path) /\ Common = Len(path)
    /\ nodes[n].handler # NoHandler
    /\ Panic

-----------------------------------------------------------------------------
(* One iteration of insertChild's loop.                                    *)

Literal == LiteralLen(path)
Token == path[Literal + 1]

InsertStatic ==
    /\ pc = "insert" /\ Literal = Len(path)
    /\ nodes' = [nodes EXCEPT ![n].path = path, ![n].handler = job.handler,
                              ![n].pattern = fullPath]
    /\ pc' = "return"
    /\ UNCHANGED <<slices, trees, mark, job, todo, locals, routes>>

AtToken(tokens) == pc = "insert" /\ Literal < Len(path) /\ Token \in tokens

\* n with the literal prefix as its path and one more, wildcard, child.
WildParent ==
    [nodes[n] EXCEPT !.path = IF Literal > 0 THEN Upto(path, Literal) ELSE @,
                     !.children = OwnSlice, !.wildChild = TRUE]
WildNode == [EmptyNode EXCEPT !.path = <<Token>>, !.priority = 1,
                !.nType = IF Token \in Params THEN "param" ELSE "regexParam"]

InsertLastParam ==
    LET child == [WildNode EXCEPT !.handler = job.handler, !.pattern = fullPath]
        id == Len(nodes) + 1
    IN  /\ AtToken(Params \cup Regexes) /\ Len(path) = Literal + 1
        /\ nodes' = [Append(nodes, child) EXCEPT ![n] = WildParent]
        /\ slices' = SlicesWith(Append(cs, id))
        /\ n' = id
        /\ pc' = "return"
        /\ UNCHANGED <<trees, mark, job, todo, path, fullPath, routes>>

\* More follows the parameter: it goes into the parameter's only child, which
\* has no index byte.
InsertParam ==
    LET id == Len(nodes) + 1
        ss == SlicesWith(Append(cs, id))
        child == [WildNode EXCEPT !.children = Len(ss) + 1]
        next == [EmptyNode EXCEPT !.priority = 1]
    IN  /\ AtToken(Params \cup Regexes) /\ Len(path) > Literal + 1
        /\ nodes' = [Append(Append(nodes, child), next) EXCEPT ![n] = WildParent]
        /\ slices' = Append(ss, <<id + 1>>)
        /\ n' = id + 1
        /\ path' = From(path, Literal + 2)
        /\ UNCHANGED <<trees, mark, pc, job, todo, fullPath, routes>>

\* Mutant: a catch-all may start inside a segment.
CatchAllAnywhere ==
    /\ Len(path) = Literal + 1 /\ Literal > 0
    /\ nodes[n].path # <<>> => nodes[n].path[Len(nodes[n].path)] # Slash
CatchAllAllowed ==
    /\ Len(path) = Literal + 1
    /\ nodes[n].path # <<>> => nodes[n].path[Len(nodes[n].path)] # Slash
    /\ Literal > 0 /\ path[Literal] = Slash

\* n gets a wrapper with an empty path, indexed by '/', whose wildcard child is
\* the leaf "/*name".
InsertCatchAll ==
    LET id == Len(nodes) + 1
        wrapper == [EmptyNode EXCEPT !.wildChild = TRUE, !.priority = 1,
                                     !.children = Len(slices) + 2]
        leaf == [EmptyNode EXCEPT !.path = <<Slash, Token>>, !.nType = "wildcard",
                                  !.handler = job.handler, !.pattern = fullPath,
                                  !.priority = 1]
    IN  /\ AtToken(CatchAlls) /\ CatchAllAllowed
        /\ nodes' = [Append(Append(nodes, wrapper), leaf) EXCEPT
                         ![n].path = Upto(path, Literal - 1), ![n].indices = <<Slash>>,
                         ![n].children = Len(slices) + 1]
        /\ slices' = Append(Append(slices, <<id>>), <<id + 1>>)
        /\ n' = id
        /\ pc' = "return"
        /\ UNCHANGED <<trees, mark, job, todo, path, fullPath, routes>>

InsertPanics ==
    /\ AtToken(BadTokens) \/ (AtToken(CatchAlls) /\ ~ CatchAllAllowed)
    /\ Panic

-----------------------------------------------------------------------------
(* addRouteInternal returns, with its deferred maxParams update, and after *)
(* the last call of the job Handle stores the new roots and unlocks.       *)

MaxUint8 == 255

\* Mutant: maxParams is raised on the root in use, not on its copy.
ReturnRaisesPublished ==
    LET count == countPatternParams(fullPath)
        root == IF trees[job.method] = 0 THEN job.root ELSE trees[job.method]
    IN  /\ pc = "return"
        /\ nodes' = [nodes EXCEPT ![root].maxParams =
                         IF count > @ THEN Smaller(count, MaxUint8) ELSE @]
        /\ job' = [job EXCEPT !.added = @ \cup {<<fullPath, job.handler>>}]
        /\ todo' = Tail(todo)
        /\ pc' = IF Len(todo) = 1 THEN "publish" ELSE "call"
        /\ UNCHANGED <<slices, trees, mark, locals, routes>>

Return ==
    LET count == countPatternParams(fullPath)
    IN  /\ pc = "return"
        /\ nodes' = [nodes EXCEPT ![job.root].maxParams =
                         IF count > @ THEN Smaller(count, MaxUint8) ELSE @]
        /\ job' = [job EXCEPT !.added = @ \cup {<<fullPath, job.handler>>}]
        /\ todo' = Tail(todo)
        /\ pc' = IF Len(todo) = 1 THEN "publish" ELSE "call"
        /\ UNCHANGED <<slices, trees, mark, locals, routes>>

Publish ==
    /\ pc = "publish"
    /\ trees' = [trees EXCEPT ![job.method] = job.root]
    /\ mark' = [nodes |-> Len(nodes), slices |-> Len(slices)]
    /\ routes' = [routes EXCEPT ![job.method] = @ \cup job.added]
    /\ pc' = "idle" /\ job' = NoJob
    /\ n' = 0 /\ path' = <<>> /\ fullPath' = <<>>
    /\ UNCHANGED <<heap, todo>>

-----------------------------------------------------------------------------
AddRoute ==
    \/ Expand \/ ExpandPanics \/ Enter
    \/ Split \/ DescendParam \/ DescendStatic
    \/ AddStatic \/ AddStaticPanics
    \/ DescendWild \/ DescendWildPanics \/ AddWild
    \/ SetHandler \/ SetHandlerPanics
    \/ InsertStatic \/ InsertLastParam \/ InsertParam
    \/ InsertCatchAll \/ InsertPanics
    \/ Return

Next == \/ \E m \in Method, p \in Requests : Handle(m, p)
        \/ AddRoute
        \/ Publish

Spec == Init /\ [][Next]_vars

-----------------------------------------------------------------------------
(* Properties.                                                             *)

\* Every variable has its type.
TypeOK ==
    /\ nodes \in Seq(Node) /\ slices \in Seq(Seq(Nat))
    /\ trees \in [Method -> Nat]
    /\ mark \in [nodes: Nat, slices: Nat]
    /\ pc \in {"idle", "call", "walk", "insert", "return", "publish"}
    /\ job \in [method: Method, handler: Patterns, root: Nat,
                added: SUBSET (Patterns \X Patterns)]
    /\ todo \in Seq(Patterns)
    /\ n \in Nat /\ path \in Seq(Symbols) /\ fullPath \in Seq(Symbols)
    /\ routes \in [Method -> SUBSET (Patterns \X Patterns)]

\* What treesPtr publishes is closed: no published root, node or slice leads to
\* memory a registration is still building, and no pointer dangles, also after
\* a panic has discarded a half-built tree.
PublishedClosed ==
    /\ mark.nodes <= Len(nodes) /\ mark.slices <= Len(slices)
    /\ \A m \in Method : trees[m] <= mark.nodes
    /\ \A id \in 1..Len(nodes) : nodes[id].children <= Len(slices)
    /\ \A id \in 1..mark.nodes : nodes[id].children <= mark.slices
    /\ \A k \in 1..Len(slices) : \A j \in 1..Len(slices[k]) :
          slices[k][j] \in 1..Len(nodes)
    /\ \A k \in 1..mark.slices : \A j \in 1..Len(slices[k]) :
          slices[k][j] \in 1..mark.nodes

\* Every node of the tree being built has a children slice of its own, none it
\* shares with a published node (what copyNode's fresh slice is for), and the
\* walk stands on such a node, whose priority Split may lower by one.
WalkIsPrivate ==
    /\ \A id \in (mark.nodes + 1)..Len(nodes) :
          nodes[id].children = 0 \/ nodes[id].children > mark.slices
    /\ pc # "idle" => job.root \in (mark.nodes + 1)..Len(nodes)
    /\ pc \in {"walk", "insert"} => n \in (mark.nodes + 1)..Len(nodes)
    /\ pc = "walk" => nodes[n].priority > 0
    /\ pc \in {"call", "walk", "insert", "return"} => todo # <<>>

\* An index byte always has a child at its position and a wildcard flag always
\* has a last child, in every node, so no walk indexes children out of range.
InRange(ss, nd) ==
    /\ Len(nd.indices) <= Len(Children(ss, nd))
    /\ nd.wildChild => Children(ss, nd) # <<>>
ChildrenInRange == \A id \in 1..Len(nodes) : InRange(slices, nodes[id])

\* The three together: whatever was registered, in whatever order and whichever calls
\* panicked, a registration writes only memory of its own, and neither it nor a reader
\* of treesPtr follows a pointer or an index that leads nowhere.
MemorySafe == PublishedClosed /\ WalkIsPrivate /\ ChildrenInRange

\* A request walks the trees without a lock while a registration runs: no step
\* of addRoute, insertChild or incrementChildPrio writes a node or a children
\* slice that was there when treesPtr was last stored.
FrozenStep ==
    /\ \A id \in 1..mark.nodes : nodes'[id] = nodes[id]
    /\ \A k \in 1..mark.slices : slices'[k] = slices[k]
PublishedFrozen == [][FrozenStep]_vars
=============================================================================
