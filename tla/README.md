# MuxMaster in TLA+

MuxMaster is an HTTP router for Go: a radix tree per method, registered under a
lock and walked by requests without one; a configuration frozen on the first
request; Muxes mounted in each other; and a set of `net/http` middleware. This
directory holds TLA+ models of the parts whose correctness is hard to test, the TLC
runs that check them on small instances, and TLAPS proofs of what registration, groups,
reconfiguration, request bundles and gates, the two throttles and token introspection
guarantee for every instance.
Each model is written from the code named in `PROJECT.json` ("map").

## Inventory

| Part | State | Operations | What is hard | What makes it correct | Here |
|---|---|---|---|---|---|
| Route registration (`tree.go`, `Mux.Handle`) | trees of nodes and children slices behind `treesPtr`, `mu` | `addRoute`, `insertChild`, `incrementChildPrio`, optional expansion, panics | readers hold no lock; path copying; splits in any order; a panic halfway | published memory is never written; all and only accepted routes are there; refusals do not depend on order | `RouteTree`, `RouteTreeProofs` |
| Route lookup (`tree.go`) | none: a function of a published tree | `getValue`, `getValueBacktrack`, `getValueStatic`, `walk` | backtracking with rewound params, two fast paths, trailing-slash hints, case folding | the best route of the pattern set, with its params | `RouteLookup`, `RouteContract` |
| Configuration and lazily built handlers (`mux.go`) | `cfg`, `lazyNotFoundPtr`, two `sync.Map`s, the exported fields | `config`, `frozenConfigSlow`, `lazyNotFound/MethodNotAllowed/OPTIONS`, `Use`, `Pre`, `Rebuild` | all of it lock-free, while requests run | no nil, one winner, no stale handler | `ServeCaches`, `ServeCachesProofs` |
| Redirect chain (`mux.go`) | `redirectMWPtr`, `redirectGen`, `lazyRedirectPtr` | `serveRedirect`, `lazyRedirect` | late goroutines with old chains | generations only grow, redirects run every middleware | `ServeCaches`, `ServeCachesProofs` |
| Dispatch and Mount (`mux.go`) | none of its own: the request's `Path`, `RawPath` and mount prefix | tree order, redirects, `allowed`, OPTIONS, `Mount` and the request it passes on, `CleanPath`, `StripSlashes` | two spellings of one path cut by byte lengths, targets moved back to the client's URL space, reloads of shared pointers within one request | the two spellings agree, a redirect leads to a handler, Allow is honoured | `Dispatch` |
| Params and request bundles (`params.go`) | `sync.Pool`s of bundles and slices | `dispatchParams*`, `getFastParams`, `putFastParams`, mount contexts | ownership through nested Muxes, panics and goroutines that outlive the handler | no request sees another's params | `Bundles`, `PooledProofs` |
| Groups, mounts, files (`group.go`, `mux.go`) | prefixes, middleware slices | `Use`, `UseFast`, `Group`, `With`, `Route`, `Handle*`, `Match`, `Mount`, `ServeFiles` | append into shared arrays; fast routes that run no standard middleware | a route runs exactly its ancestors' middleware | `Groups`, `GroupsProofs` |
| Introspection (`introspection.go`) | none | `Walk`, `Routes`, `Lookup` | consistent view while registering | exactly the registered routes | `walk` in `RouteLookup` |
| Global throttle (`middleware/throttle.go`) | `inUse`, `queue`, `wake` | `tryAcquire`, `acquireWait`, `release` | compare-and-swap, time-outs racing wake-ups | it is a gate with a limit and a backlog | `ThrottleSem`, `ThrottleGate`, `ThrottleSemProofs` |
| Per-client throttle (`middleware/throttle.go`) | sharded maps, `size`, entries with tokens and refs, a pool | `acquire`, `decRefs`, the handler | removal racing arrival, recycled entries, the bound across shards | limit per key, exact references, bound | `ThrottleTable`, `ThrottleTableProofs` |
| Token introspection (`middleware/oauth2.go`) | a bounded cache, calls in flight | cache get/set/evict, shared calls | expiry and eviction racing shared calls | one call per token, nobody waits in vain, nothing stale | `Introspect`, `IntrospectProofs` |
| Response wrappers (`logger`, `compress`, `recoverer`) | flags and buffers of pooled writers | `WriteHeader`, `Write`, `Flush`, `close`, recovery | any nesting, a decision about compression in mid-stream, panics, reuse | the client gets what it would have got without them | `Writers`, `PooledProofs` |
| Request gates (`request_id`, `real_ip`, `cors`, `set_header`, `no_cache`, `jwt_auth`) | a pool of random bytes, the header memo, pooled hashes, arrays behind response headers | one handler each | requests share what speeds them up | unique ids, isolated headers, a verdict that is the token's own | `Gates`, `GatesProofs` |
| `api_key`, `basic_auth`, `with_value`, `timeout`, response helpers, handler types | none | one comparison, one context value, one encoding | | | not modelled |

The parts meet in `Mux.ServeHTTP`: it takes a configuration snapshot, loads the
published trees, looks the path up, puts what was captured into a bundle, and calls a
handler that registration wrapped in the middleware of its time, a mounted Mux, or one
of the lazily built handlers. Middleware are handlers around handlers. They share
nothing with the router but the request, the response writer and its header map.

## Modules

* **RouteTree** models `Handle`/`HandleFast` and `addRouteInternal` with the heap
  made explicit: `nodes` and `slices` are the memory, `trees` is `*treesPtr`, and
  `mark` is how much memory was there when it was last stored. One action is one
  iteration of the walk loop or of `insertChild`'s loop, so that *which* memory
  each iteration writes is visible. A panic is an action that returns to idle with
  the private heap dropped. Patterns are sequences of symbols (bytes and whole
  wildcard tokens); handlers are named by the pattern that registered them. A
  malformed wildcard of any kind is a `BadToken`.
* **RouteLookup** turns a published tree into a value and gives the walks as
  recursive operators: one `Step` per loop iteration, shared by the optimistic
  walk and the backtracking one as it is in the code, the params buffer with its
  inline part and its overflow, and the static fast path.
* **RouteContract** says what the two promise, on the set of patterns alone: which
  patterns match a path and with what captures, which match is best, and which
  registrations must be refused. It is the abstract specification the trees are
  held to. `TsrHinted` is its link to `Dispatch`: for the kinds of route sets used
  there the tree's hint is the `tsr` that `Dispatch` uses.
* **ServeCaches** models requests and the goroutines that reconfigure the `Mux`,
  one atomic operation per action. A field is the number of its assignments and a
  chain its length. `overlap` says which calls a program lets overlap requests,
  so that one run covers the program that obeys the documentation and the one
  that does not. `done` and a request's `since` record what the calls that had
  returned when the request arrived established.
* **Dispatch** follows one request through a Mux and the Muxes mounted below it.
  `Lookup` is `dispatch` up to the point where nothing was found, with its order of
  answers: the method's own tree, its redirects, the `*` tree, the redirect to a
  mount. `Allowed` is the rest, a step of its own because `allowed` loads `treesPtr`
  again and `Register` may come between. Paths are byte sequences with their percent
  escapes, because `mountAt` subtracts byte lengths and cuts `Path` and `RawPath`
  by different rules. `Follow` and `Retry` are the client: what a redirect or an
  Allow header promises is only seen in the request that comes back. `net/url`,
  `path.Clean` and `http.Redirect` are external.
* **Bundles** models where captured parameters live. The heap is a set of cells, a
  `stack` of dispatches per request nests through mounted Muxes, each with its own
  choice of pooling, and a context is a cell with its parent. Clearing a bundle and
  putting it back are two steps; a panic skips both. `Keep` is a handler's goroutine
  that outlives it, only where the Mux's lifetime contract allows one.
* **Groups** models the registration interface. Go slices are explicit (array,
  length, capacity), `append` writes in place while there is room; beside them
  `wantStd` and `wantFast` keep the chains as values. A registration that panics
  leaves what earlier methods of the same call registered.
* **Writers** models the three wrapping middleware in any order around one handler.
  A byte is its number and how often it was compressed. `Call` takes a call through
  the layers to net/http's response (external): what each layer is asked is a function
  of its index. `bare` is the response the same calls make with no layer at all. Unwinding is one action per layer, on return and
  on panic. Wrappers go back to their pools as each middleware leaves them.
* **Gates** models the middleware that decide about a request or label it, for
  concurrent requests through one chain. Header values are slices of arrays that may
  be shared, and the handler appends and writes in place. A signature is what was
  signed, with which key and algorithm. Loading the header memo, decoding, verifying
  and checking claims are separate steps, as other requests change the memo and the
  pooled hashes between them.
* **ThrottleSem** and **ThrottleTable** model the two throttles, one atomic or
  channel operation or critical section per action. Time-outs may happen at any
  moment a waiter waits. A `sync.Pool` gives back anything it was given, or nothing.
  **ThrottleGate** is what `ThrottleBacklog` promises, without counters, channels or
  retries; `ThrottleSem` refines it (`GateState` is the mapping). The gate's `Safety` is
  what it may do, its `Spec` adds what it must do in the end.
* **Introspect** models the handler of `OAuth2Introspect` with its cache and its
  single-flight group. `cache` is the map and the heap array with every entry's
  `idx`; `container/heap` is external and written out, because the entries' `Swap`
  maintains `idx` for it. A call is named by the request that leads it: `calls` is
  the map of calls, and `leader[r]` is the channel a follower waits on, `Nil` once
  it is closed. An inactive token and an error are one result, as the handler
  answers both with 401. The leader's own cancellation has no effect on it
  (`context.WithoutCancel`), so only followers give up. `prompt` says whether the
  clock may move while a request could.
* **MCRoutes, MCServe, MCDispatch, MCBundles, MCGroups, MCWriters, MCGates,
  MCThrottleTable, MCIntrospect** are the instances (`ThrottleSem` needs none).
* **RouteTreeProofs**, **ServeCachesProofs**, **PooledProofs**, **GroupsProofs**,
  **GatesProofs**, **ThrottleSemProofs**, **ThrottleTableProofs** and **IntrospectProofs**
  hold the theorems; PooledProofs those of Bundles and of Writers.

Operators whose comment says *Mutant* are used by no specification: each is a
plausible bug of the definition that follows it, and `PROJECT.json` names the
property that a run finds violated when it takes that definition's place.

## Runs

| Run | Result | What it shows |
|---|---|---|
| `MCRoutes` | holds | every order of registering five pattern families, refused registrations included: `PublishedFrozen`, `MemorySafe` (memory); `TreesExact`, `PanicsOnConflict` (what is registered); `LookupCorrect`, `TsrHinted` (what is found) |
| `MCRoutesRegex` | violated | `WalkExact`: a second route below one regex parameter replaces the first without a panic |
| `MCServe` | holds | programs that keep still, that call `Rebuild` during requests, and that also assign fields then: `TypeOK` (no nil snapshot), `LiveBinding`, `ConfigCurrent`, and `QuietExact`, the two documented promises for programs that reconfigure between requests |
| `MCServeOverlap` | holds | `Use`, `Pre` and `Rebuild` at any time: `GenerationsGrow`, `RedirectCurrent`, `Answered` |
| `MCDispatch` | holds | `MountUrlExact` (Path and RawPath through nested mounts and path middleware), `RedirectLands`, `AllowHonoured` (a retry with a method in Allow is served or redirected; one with OPTIONS may also be answered with an Allow that has lost nothing, as a 405 if `HandleOPTIONS` is off) |
| `MCBundles` | holds | `NoSharing` (nothing recycled is reachable), `OwnParams` (every handler reads its own request's parameters) |
| `MCGroups` | holds | `ChainsExact`, `FastNeverBypasses`, `PatternsJoined` |
| `MCWriters` | holds | `Transparent`, `PanicAnswered`, `LoggedIsSent`, in every order of the three layers and with Compress in Compress |
| `MCGates` | holds | `IdsUnique`, `HeadersIsolated`, `VerdictExact`, `RealClient` |
| `MCThrottleSem` | holds | `CountsExact`, `NoLostWakeup`, and the refinement `ImplementsGate` |
| `MCThrottleTable` | holds | `KeyLimit`, `TableExact`, `Drained` |
| `MCIntrospect` | holds | `SingleFlight`, `NoOrphan` (the shared calls); `CacheConsistent`, `EvictsEarliest` (map and heap); `CacheFresh` (what the cache serves) |

### Disagreements between code and documents

`MCRoutesRegex` is listed as a finding. The other configurations state what a document
says, and TLC finds each violated (`tlc -config <file> <module>`); each was met while
modelling, and the properties of the runs above say what the code guarantees instead.

| Configuration (module) | Property | Code | Document |
|---|---|---|---|
| `MCRoutesTsr` (`MCRoutes`) | `TsrExact`: a trailing-slash hint for a path that has no handler, and with `/ab` and then `/a/*c` no hint for `/a` | `tree.go:764` | `mux.go:165` |
| `MCRoutesCase` (`MCRoutes`) | `CaseFolded`: with `CaseInsensitive`, `/Ab` and `/aa` hide each other's subtrees | `tree.go:704` | `specification/configuration.md:138` |
| `MCServeStale` (`MCServe`) | `RebuildTakesEffect`: an old handler stored after `Rebuild` returned | `mux.go:1147` | `docs/configuration.md:22` |
| `MCServeMix` (`MCServe`) | `OneSnapshot`: with `Pre` the configuration is read a second time | `mux.go:429` | `README.md:727` |
| `MCThrottleFull` (`MCThrottleTable`) | `RefusedWhenFull`: a new key refused though the table has room | `middleware/throttle.go:299` | `middleware/throttle.go:202` |
| `MCDispatchReload` (`MCDispatch`) | `AnswersSnapshot`: the Allow answer comes from newer trees than the lookup | `mux.go:2136` | `specification/compatibility.md:76` |
| `MCDispatchRaw` (`MCDispatch`) | `StaysInMount`: with `UseRawPath` and no `UnescapePathValues` the length of the encoded remainder is subtracted from the decoded path, so a redirect leaves the mount | `mux.go:822` | `specification/groups.md`, rule 31 |
| `MCWritersPanic` (`MCWriters`) | `PanicGets500`: a handler below Compress panics before it wrote anything; Compress commits an empty 200 while unwinding, and a Recoverer further out finds the response started | `middleware/recoverer.go:79` | `docs/middleware.md:266` |

Smaller observations, each the reason for an exception in a property. In `RedirectLands`:
with `CleanPath` or `StripSlashes` run by `Pre`, a trailing-slash redirect to a route that
ends in `/` comes back stripped and is redirected again; with `UseRawPath` a Location keeps
the decoded spelling; a target with a captured `..` is cleaned into another path. In
`Dispatch!tsr`: a mount below a parameter gives no hint for the bare prefix. In
`AllowHonoured`: every Allow value names OPTIONS (`mux.go:2126`; `specification/routing.md`,
rule 61), so with `HandleOPTIONS` off and `HandleMethodNotAllowed` on a client that tries it
is refused with a second 405. In `LoggedIsSent`: Logger has no `Write` of its own, so a `WriteHeader` after an implicit 200 is
logged though the client never sees it.

### Bounds

* Routes: five families of 3 to 11 patterns, one method (trees of different
  methods share nothing but the array of roots). The constraint `OneFamily` keeps
  a behaviour to one family. The families contain each pair the code treats
  specially: splits in the middle and at the end of a literal, a wildcard beside a
  literal at three depths, a catch-all before and after what it conflicts with, two
  optional segments, each way to be malformed, and the route sets of `MCDispatch`.
  Paths: all of up to three bytes after the `/` over two letters and `/`, and the two-
  and three-segment ones. `InlineParams` is 1 (3 in the code), so that params spill at
  the second one, and `MaxOptionals` 2 (8 in the code). Regex parameters end their
  patterns in `DeepRequests`, because what follows one is the finding of
  `MCRoutesRegex`.
* Serve: two requests and one reconfiguring goroutine. Two is what each race here
  takes: one late, one that sees the damage. `MaxUse` is 2 in `MCServeOverlap`, as
  a late chain of an old generation needs two, and leaves out the cached handlers
  and the fields, which redirects do not touch.
* Dispatch: three Muxes, the third mounted both in the first below a parameter and in
  the second, so that prefixes compose; up to `MaxMissing` = 2 routes are registered
  while requests run. Paths of up to three segments: empty, plain, encoded, with an
  encoded `/`, and `..`. A path with a route for OPTIONS beside others is among the
  routes. A client comes back once. Regex parameters and
  `CaseInsensitive` are left to `RouteLookup`.
* Bundles: two requests, two depths, one kept goroutine, a route for each tier that
  behaves differently. Eight cells are enough for every allocation: more of them give
  no further states.
  `VIEW Reachable` merges states that differ in unreachable cells.
* Groups: five `Use` calls, since an array with room for a sibling's append has three
  elements of four; two groups; the run stops at a behaviour's first routes, because a
  route changes nothing that later registrations read but their patterns.
* Writers: `minCompressSize` 2 and `sniffBufSize` 3 (1024 and 8192), writes of 1, 2 and 4
  bytes: below the minimum, at the buffer's edge and across it. Four calls per handler,
  two requests one after the other for the reuse of wrappers.
* Gates: two requests; a buffer of random bytes serves `PerBuf` = 2 ids (256), five are
  generated; `MaxHops` 2 (30) with up to three hops; at most one JWTAuth and one RealIP per
  chain (`ChainsAssumption`); an append that grows an array doubles it; one free hash
  per algorithm stands for the pool; `Header.Get` gives the first line of a header;
  NoCache sets three of its five headers. The tokens differ from a good one in one thing.
* Throttles: enough requests to fill the limit and the backlog and to overflow
  them, and for the table one entry address per request, so that a missing address
  never blocks a step the code can take. `MaxArrivals` bounds the requests.
* Introspection: three requests (a leader that is closing its call, a follower that
  has yet to store the answer, a second leader), three tokens on a cache of two, so
  that something is evicted after an expiry was changed in place. A heap of two has
  one level: that a sift chooses the smaller of two children is not exercised. The
  clock runs to 2 with `CacheTTL` 1, which lets an entry expire.

### Fairness

`ServeCaches`, `ThrottleSem` and `ThrottleTable` assume weak fairness of every
goroutine's own next step: the Go scheduler runs a goroutine that can run, and
handlers return. Nothing is assumed of arrivals, of calls to `Use` and `Rebuild`,
and of timers: `ImplementsGate` and `Drained` hold although no timer may ever fire,
which is what shows that a wake-up is never lost. `ImplementsGate` includes the gate's
fairness, and that holds because arrivals end: while requests keep arriving, one that
barges in can take the permit a waiter was woken for, again and again. A waiter that has
its permit keeps its place in the backlog until `Leave`, which is why `GateState` still
calls it waiting.

The other models need no fairness; nothing is claimed to happen eventually in them
(`NoOrphan` is the safety side of every follower being answered).

`MCRoutes`, `MCServe` and `MCServeOverlap` check for deadlock: every state has a
successor there. In the others the system stops when all arrivals, registrations or
requests are used up, and deadlock checking is off.

## Proofs

The constants of a proof are arbitrary: any number of requests, keys, groups, patterns,
entries. Each theorem rests on the assumptions of its module only (`SymbolsAssumption`
and `RequestsAssumption`, `SlotsAssumption`, `RoutesAssumption`, `BoundsAssumption`, `SemAssumption`,
`TableAssumption`, `IntrospectAssumption`, `GatesAssumption`, `ChainsAssumption`,
`ClientsAssumption`, `SizesAssumption`): that bounds are numbers, that sets of
requests which are counted are finite, that `Nil` is none of the values it stands
beside, that symbols of different kinds differ, that a parameter's name runs to the
end of its segment, that a route with parameters has a pattern and a mount is one of them,
and that a chain has at most one JWTAuth and one RealIP (with two,
`VerdictExact` and `RealClient` would have to say which of them they mean). TLC evaluates them in the runs. Each inductive invariant was
checked as an invariant of the module's run before it was proved.

| Theorem | Of the runs' properties |
|---|---|
| `RouteTreeProofs`: `TypeCorrect`, `RegistrationIsMemorySafe`, `ReadersSeeFrozenTrees`, and the parts `PublishedTreesClosed`, `WalkStaysPrivate`, `NoIndexOutOfRange` | `TypeOK`, `MemorySafe`, `PublishedFrozen` |
| `ServeCachesProofs`: `TypesCorrect`, `RedirectsNeverRegress`, `RedirectsLiveBound`, `RebuildReachesRequests`, `HandlersLiveBound`, `QuietProgramsExact` | `TypeOK`, `GenerationsGrow`, `RedirectCurrent`, `ConfigCurrent`, `LiveBinding`, `QuietExact` |
| `PooledProofs`: `BundlesAreApart`, `HandlersReadTheirOwn` | `NoSharing`, `OwnParams` |
| `PooledProofs`: `LayersInvariant`, `LayersAreTransparent`, `PanicsAreAnswered`, `LoggedStatusIsSent` | `Transparent`, `PanicAnswered`, `LoggedIsSent` |
| `GroupsProofs`: `ChainsAreExact`, `FastRoutesBypassNothing`, `PatternsAreJoined` | `ChainsExact`, `FastNeverBypasses`, `PatternsJoined` |
| `GatesProofs`: `VerdictsExact`, `HeadersAreOwn`, `RandomIdsUnique`, `RealClientFound` | `VerdictExact`, `HeadersIsolated`, `IdsUnique`, `RealClient` |
| `ThrottleSemProofs`: `PermitsAndBacklogExact`, `NoWakeupIsLost`, `SemaphoreImplementsGate` | `CountsExact`, `NoLostWakeup`, and the safety of `ImplementsGate` |
| `ThrottleTableProofs`: `TableIsExact`, `KeysAreLimited` | `TableExact`, `KeyLimit` |
| `IntrospectProofs`: `OneCallPerToken`, `NoFollowerForgotten`, `CacheExact`, `EarliestGoesFirst`, `AnswersAreFresh` | `SingleFlight`, `NoOrphan`, `CacheConsistent`, `EvictsEarliest`, `CacheFresh` |

### Registration (`RouteTreeProofs`)

`ReadersSeeFrozenTrees` is the one that matters: a request may walk a tree while a
registration runs. It does not follow from a step alone. The inductive invariant is

    IInv == TypeOK /\ PublishedClosed /\ WalkIsPrivate /\ ChildrenInRange

A step writes node `n` and the slice `nodes[n].children`, so they must be private
(`WalkIsPrivate`); the slice is private only if no node built so far took over a
published one, which is a statement about all private nodes. `Split` hands a slice
from one node to another, so privacy must be of slices, not of pairs.
`incrementChildPrio` reads `children[pos]` for an index position, so the index bytes
must not outnumber the children (`ChildrenInRange`), and the child it reads must
exist (`PublishedClosed`); `TypeOK` carries the arithmetic, such as the priority that
`Split` lowers by one. The proof goes through four lemmas about the heap (allocate or
write a node or a slice), one lemma for each of `copyNode`, the descent and
`incrementChildPrio`, and one for each action. `MCRoutes` checks the four conjuncts
(`TypeOK` and `MemorySafe`).

### Requests and reconfiguration (`ServeCachesProofs`)

The invariant comes in layers, each inductive given those before it:

1. `Typed`: what a request has read at each point of its code, and which stores each
   call of `Use` or `Rebuild` has still to make. `TypesCorrect` follows.
2. `Chains` over `Around`, the chains that are published, cached or held by a request:
   of one generation there is one chain, and none is newer than the published one.
   This is why a late compare-and-swap cannot put an older redirect in place of a newer
   (`RedirectsNeverRegress`). With `RedirectSince`, which compares a request's chain with
   the `Use` calls that returned before it, `RedirectsLiveBound` follows.
3. `ConfigSince`: while fields are copied into a candidate snapshot those already copied
   are the current ones, and a published snapshot is as new as every `Rebuild` that has
   passed its first store (`RebuildReachesRequests`).
4. `CachedSince`: which cached handlers a `Use` under way has already dropped, and that
   whoever is about to store one read the middleware that is current
   (`HandlersLiveBound`).
5. `QuietSince`: with no overlap at all, everything a request holds agrees with the
   published snapshot (`QuietProgramsExact`).

A layer is conditional on `overlap`, as the property it serves is.

### Params and request bundles (`PooledProofs`)

Neither property is inductive. That a pooled bundle is out of reach says nothing of the
bundle that is about to be put back, and that a handler reads its own parameters says
nothing of the cells its context leads to. `Owned` speaks of `Recycled`, the cells that are
in a pool or owned by a dispatch that will put them there:

* Nobody reaches a recycled cell but the dispatch that owns it, and that one as its own
  context only, not further along the chain (`FrameSafe`). This is where it matters that a
  mount's bundle is never pooled: `Typed` says that every dispatch of a request but the
  last is a mount's, so only the last can own a recycled cell, and a context that an inner
  dispatch builds chains to cells that stay.
* A goroutine that outlives its handler reaches no recycled cell (`KeptSafe`). `Keep` is
  allowed only where the Mux does not pool, and a FastHandler of one that pools bundles
  hands on the request of the dispatch around it, which is a mount's or the client's.
* A context says what its dispatch wants (`Says`): the match answers itself, or, inside a
  mount, the context that carries the prefix asks the match behind it. So lookups end within
  two contexts, however deep the mounts (`SaysIs`), and `Longest` is enough.

A panic leaves bundles that are in no pool and that nobody owns any more: they drop out of
`Recycled`, which only makes it smaller. `Asked`, the contexts that a lookup asks in turn,
is a recursive function; `AskedIs` shows that it is what it says by the least step at which
it would not be. A write to a cell that a dispatch does not reach changes none of its
lookups (`AskedSame`, `FrameSame`, `KeptSame`), and there is one lemma per way to begin and
to end a dispatch.

### Response wrappers (`PooledProofs`)

The three properties speak of a request that is done; the invariant has to say what the
wrappers hold until then. A view `V[i]` is the response, its status and its bytes, as the
code inside layer `i` has made it; `V[0]` is what net/http's response has. `Shows` relates a
layer to the views on its two sides: all but Compress show what they are shown, a
gzipResponseWriter shows what it holds while nothing has been sent, and what it passes on,
decompressed, once it has decided.

* `Serving`, while the handler runs: the innermost view is `bare`. So every call must change
  all views alike (`LayerShows`, `CallShows`): bytes are held, compressed or passed on, but
  none is lost or repeated at the edge of the sniff buffer or by a flush.
* `Labelled`: Content-Encoding is "gzip" exactly if a layer compresses, and at most one does,
  because commit looks at the header before it decides and a layer decides once. `CallLabels`
  is the hard step: one call can make several gzipResponseWriters decide, each before the
  one outside it.
* `Recorded`: a statusRecorder has the status of its view, or 200 while that has none. It
  fails when a status comes after the first write, which the recorder keeps and net/http
  drops; therefore `status # "late"`.
* `Unwinding(V, left)`, while the layers are left: the view of the innermost layer that
  remains carries what the client should get (`Wanted`), compressed and ended by the trailer
  if a layer that compressed is gone (`left`). `Known` says when that is determined: after a
  panic before anything was sent, as long as no Compress has been unwound, which would send
  a 200, or since a Recoverer that found nothing sent has written its 500.

A call goes through the layers by a recursive function, from the innermost layer outwards.
`CallRuns` shows that there is one, and `Inwards` is the induction over the layers' indices,
by the least one that is not reached. The theorems hold for every chain in which each layer
may occur any number of times, for all sizes with `minCompressSize <= sniffBufSize`
(`SizesAssumption`), all codes and writes, and any number of calls and requests. TLC checked
the invariant on `MCWriters` with `V` computed from the wrappers. `PanicGets500`, which the
code violates, shows that `PanicAnswered` needs its condition on Compress.

### Groups (`GroupsProofs`)

`ChainsExact` is not inductive: an append by a sibling could write into an array that is
shared. `Inv` adds `Unshared`, that no two slices of the Mux and its groups, standard or
fast, have the same backing array, and `Kept`, that each slice lies within its array and
holds what its owner should run. `CopyHolds` (the copies made by `Group` and `With` are
apart from everything) and `AppendHolds` (an append in place changes no slice apart from
it, one that grows makes a new array) are the lemmas about Go slices; every registration
then reads chains that are exact.

`PatternsAreJoined` compares what `joinPrefix` builds from the left, group by group, with
`Joined`, a recursive function that starts at the last part and leaves out the other slash
of a joint. `JointIs` shows that either slash may go, `JoinAssociative` that the order of the
joints does not matter (a part that is a single "/" is where it could), and `JoinedAppend`,
by the least number of parts at which it would fail, that a further part is joined at the
end; `Parted` is the invariant for the groups' prefixes.

### Request gates (`GatesProofs`)

Each of the four properties has an invariant of its own over `Typed` (a request is idle
or has all its locals and a place in the chain).

* `Buffers`: no two buffers, in the pool or with a request, have the same random bytes,
  and what a buffer has left was not served (`Ahead`). A buffer that a collection drops
  takes its bytes with it; one that a request holds is in nobody's reach.
* `Verdicts`: the memo has a header that JWTAuth accepts, with its algorithm
  (`MemoKnown`), and at each point of the handler what has been checked of the token
  holds (`TokenKnown`). The hash is reset before it absorbs, so nothing need be known of
  the pooled hashes. `GoodIs` splits what the property asks into header, signature and
  claims; the refusals, in whatever order, each break one part.
* `Headed`: the slices behind a request's headers lie in its own arrays, no two share an
  element, the room between length and capacity included (`Apart`), and hold the values
  that were meant (`Holds`). `FreshKeeps`, `AppendKeeps` and `WriteKeeps` are the lemmas
  about arrays. `SetFresh` makes slices without room, which is why an append to one value
  does not reach the next in the same array.
* `Addressed`: the address is the peer's up to RealIP and `ClientAddr` past it. The walk
  over the hops is a recursive function; `FoundNext` is its loop invariant and `WalkIs`
  the induction, by the least position at which it would fail. `ClientIs` then moves the
  positions from the last `MaxHops` hops to all of them.

### Throttles (`ThrottleSemProofs`, `ThrottleTableProofs`)

`CountsExact` needs to know at which points of its code a request has a place in the
backlog (`PlaceKnown`), and that what `tryAcquire` loaded was below the limit when it
swaps (`LoadedBelow`). `NoLostWakeup` is a disjunction that a step can move from one
side to the other, and not inductive; `SignalsCover` is:

    SignalsCover == Cardinality(Asleep) <= wake \/ Limit - inUse <= Pending

a signal for every sleeper, or a pending attempt for every free permit.
`SemaphoreImplementsGate` maps initial states and each action to a step of the gate or a
stutter; the gate's fairness is left to TLC (`ImplementsGate`).

The table's invariant says who owns an entry: a key, one request that is about to recycle
it, or the pool, and never two (`Owners`); what a request has at each point (`Places`);
that tokens in the channel and running handlers sum to the limit (`TokensExact`); and how
far `size` may run ahead of the table while reservations are taken back (`SizeBounded`,
`SizeExact`). Counting is one lemma, `Recount`: a step of `p` changes a set of requests
by `p` at most.

### Token introspection (`IntrospectProofs`)

`SingleFlight` and `NoOrphan` are inductive only together. A follower is not orphaned
because the request it found in `calls` is one that leads a call for that token, which is
`SingleFlight`; and `Delete` clears the right call only because whoever is about to delete
is the one that `calls` names. `Flight` is the two, request by request, with types.

For the cache, `Held` adds `HeapOK`: no entry expires before its parent. `container/heap`'s
`up` and `down` are loops, here recursive functions of their indices. Their runs are
described step by step (`SiftUpRuns`, `SiftDownRuns`), and what a loop keeps is proved by
induction over the interval of its steps (`NatClosed`, from the library's `WFMin`, because
its induction theorems take an operator). `UpOrder` and `DownOrder` are the loop
invariants: the heap is in order but for one entry, which is earlier than its parent, or
later than a child. The proof is for heaps of any depth, while TLC's cache of two has a
heap of one level. `CacheFresh` needs `Recent`: what each request that is about to store or
to serve an answer knows of when it was given.

### Only model-checked

* Lookup and `RouteContract` (`TreesExact`, `LookupCorrect`, `TsrHinted`,
  `PanicsOnConflict`) and `Dispatch` (`MountUrlExact`, `RedirectLands`, `AllowHonoured`):
  recursive operators over trees and paths; what a recursive definition computes for every
  input needs induction over data.
* Liveness under fairness (`Answered`, `Drained`, the fairness in `ImplementsGate`), which
  the prover does not reach.

## Not modelled

* `APIKey`, `BasicAuth` and `WithValue`: one comparison or one context value, no state.
  `Timeout`: it derives a context with a deadline and hands it on; what the handler
  does with it is the application's. The response helpers and handler types: stateless
  encodings. The conversions of one parameter (`params.go`'s `Int`, `Bool` and so on).
  The checks of options at construction, except JWTAuth's keys. The programs under
  `examples/` and the harnesses under `reports/`.
* `http.FileServer` behind `ServeFiles`, and what cryptographic primitives compute.
* A literal glued to a regex token (`{id:[0-9]+}x`), and name clashes between params.
* The wrap-around of the 32-bit priority, invalid UTF-8 in patterns, and what a
  regular expression accepts (any predicate on segments).
* `HandleFast` differs from `Handle` in the tree in the type of the handler only.
* Memory ordering below Go's happens-before: atomic operations are sequentially
  consistent, as the Go memory model says. A field assigned while
  `frozenConfigSlow` reads it is read old or new.
* `Use` that overlaps requests may leave a cached 404, 405 or OPTIONS handler
  without the new middleware, by the same late store as in `MCServeStale`;
  `SECURITY.md` forbids the overlap, so `LiveBinding` excludes it.
* In `Dispatch`: `CaseInsensitive` (`cleanedPath` and `allowed` compare case-sensitively
  even then), and a mount at `/`, which drops `RawPath` without need.
* In `Introspect`: a request without a token (401 at once), the checks of the options,
  the default transport, the decoding of the provider's JSON, and a panic in the
  provider's transport, which would leave its call in `calls` for ever.
* Two things the code does there that no run is about. The leader ends its call
  before it stores the answer, so a request in between may repeat the call
  (`SingleFlight` shows the two never overlap). And a request delayed between its
  result and its store can make an answer last longer than `CacheTTL`; `CacheFresh`
  claims the bound for prompt requests only.
* In `Dispatch`, one thing more that no run is about: `allowed` leaves the routes for
  OPTIONS out, so a path that has no others answers 404, where
  `specification/configuration.md` (rule 8) has a 405 for a path with at least one method.
* `AllowHonoured` follows what an answer promises to the next request. Whether the Allow
  value fits the lookup it answers is `AnswersSnapshot`, which fails in the code
  (`MCDispatchReload`), as routes may be added between the two.

## Plan

Done: every component of the inventory that has state is modelled, and the invariants of
registration, reconfiguration, bundles, groups, response wrappers, request gates, throttles
and introspection are proved. Left are the properties listed under "Only model-checked":
they compare the code's loops over trees and paths with a reference definition, and each
would need its operators rewritten as functions of an index, as was done for `Writers`.
