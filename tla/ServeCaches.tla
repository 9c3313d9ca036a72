---------------------------- MODULE ServeCaches ----------------------------
(***************************************************************************)
(* The state that requests share without a lock (mux.go): the frozen       *)
(* configuration, the cached 404, 405 and OPTIONS handlers, the redirect   *)
(* handler with its generations, and Use, Pre and Rebuild, which change    *)
(* them while requests are being served.  One action is one atomic load,   *)
(* store or compare-and-swap, or one critical section of Mux.mu.           *)
(*                                                                         *)
(* A configuration field is the number of times it has been assigned, and  *)
(* a middleware chain is its length: Use only appends, so a longer chain   *)
(* has every middleware of a shorter one.  Which response a request gets   *)
(* depends on the route trees, modelled in RouteTree; here it is any.      *)
(***************************************************************************)
EXTENDS Naturals, Sequences, FiniteSets

CONSTANTS
    Request,        \* the goroutines that run ServeHTTP
    Admin,          \* the goroutines that run Use, Pre and Rebuild
    Fields,         \* the configuration fields of Mux
    NotFound,       \* the handler in lazyNotFoundPtr, or none to leave it out
    NotAllowed,     \* the keys of methodNotAllowedCache (Allow values)
    Options,        \* the keys of optionsCache
    FieldOf,        \* the field each cached handler is built from
    Nil,
    Overlaps,       \* the programs considered, each by the calls it lets overlap requests:
                    \* of "use" (Use and Pre), "rebuild" and "assign" (to a field)
    MaxAssign,      \* bound on the assignments to each field
    MaxUse,         \* bound on the calls of Use
    MaxRebuild      \* bound on the calls of Rebuild

Slots == NotFound \cup NotAllowed \cup Options

Conf == [Fields -> Nat]
Chain == [gen: Nat, mw: Nat]        \* a mwSnapshot or a lazyRedirectEntry
Entry == [handler: Nat, mw: Nat]    \* a cached, wrapped handler

ASSUME SlotsAssumption ==
    /\ FieldOf \in [Slots -> Fields]
    /\ NotFound \cap (NotAllowed \cup Options) = {} /\ NotAllowed \cap Options = {}
    /\ IsFiniteSet(Fields) /\ Overlaps \subseteq SUBSET {"use", "rebuild", "assign"}
    /\ Nil \notin Admin \cup Slots /\ Nil \notin Conf \cup Chain \cup Entry
    /\ MaxAssign \in Nat /\ MaxUse \in Nat /\ MaxRebuild \in Nat

VARIABLES
    fields,         \* the exported fields of Mux
    cfg,            \* *cfg, or Nil
    middleware,     \* len(m.middleware), guarded by mu
    redirectGen,    \* guarded by mu
    redirectMW,     \* *redirectMWPtr: a chain and its generation, or Nil
    pre,            \* whether preHandlerPtr is set
    cache,          \* lazyNotFoundPtr, methodNotAllowedCache and optionsCache
    lazyRedirect,   \* *lazyRedirectPtr, or Nil
    mu,             \* the Admin that holds mu for writing, or Nil
    prog,           \* per Admin, the stores its call has still to make
    pending,        \* per Admin, the keys its Range has still to visit
    req,            \* per Request, its locals
    done,           \* history: what the returned Use and Rebuild calls established
    overlap         \* the calls that may overlap requests

shared == <<fields, cfg, middleware, redirectGen, redirectMW, pre, cache, lazyRedirect>>
admin == <<mu, prog, pending, done, overlap>>
vars == <<fields, cfg, middleware, redirectGen, redirectMW, pre, cache, lazyRedirect,
          mu, prog, pending, req, done, overlap>>

Idle == [pc |-> "idle", back |-> "serve", serve |-> Nil, cfg |-> Nil,
         cand |-> [f \in Fields |-> 0], left |-> {}, slot |-> Nil, mw |-> 0,
         snap |-> Nil, cur |-> Nil, out |-> Nil,
         since |-> [mw |-> 0, fields |-> [f \in Fields |-> 0]]]

Init == /\ fields = [f \in Fields |-> 0] /\ cfg = Nil
        /\ middleware = 0 /\ redirectGen = 0 /\ redirectMW = Nil /\ pre = FALSE
        /\ cache = [s \in Slots |-> Nil] /\ lazyRedirect = Nil
        /\ mu = Nil
        /\ prog = [a \in Admin |-> <<>>] /\ pending = [a \in Admin |-> {}]
        /\ req = [p \in Request |-> Idle]
        /\ done = [mw |-> 0, uses |-> 0, rebuilds |-> 0,
                   fields |-> [f \in Fields |-> 0],
                   from |-> [a \in Admin |-> [f \in Fields |-> 0]]]
        /\ overlap \in Overlaps

-----------------------------------------------------------------------------
(* A request.                                                              *)

At(p, pc) == req[p].pc = pc
MayServe == \A a \in Admin :
    prog[a] # <<>> => (IF mu = a THEN "use" ELSE "rebuild") \in overlap
MayCall(kind) == kind \in overlap \/ \A p \in Request : At(p, "idle")

\* ServeHTTP is called.  since is what it may rely on.
Arrive(p) ==
    /\ At(p, "idle") /\ MayServe
    /\ req' = [req EXCEPT ![p] = [Idle EXCEPT !.pc = "config",
                  !.since = [mw |-> done.mw, fields |-> done.fields]]]
    /\ UNCHANGED <<shared, admin>>

\* config() returns c to ServeHTTP, to Pre's handler or to HandleE's handler,
\* which is done with it.
Configured(p, c) ==
    LET r == [req[p] EXCEPT !.cand = Idle.cand, !.back = "serve"]
    IN  CASE req[p].back = "serve"    -> [r EXCEPT !.pc = "serve", !.serve = c]
          [] req[p].back = "dispatch" -> [r EXCEPT !.pc = "dispatch", !.cfg = c]
          [] req[p].back = "error"    -> [r EXCEPT !.pc = "done"]

LoadConfig(p) ==
    /\ At(p, "config")
    /\ req' = [req EXCEPT ![p] =
                  IF cfg # Nil THEN Configured(p, cfg)
                  ELSE [@ EXCEPT !.pc = "freeze", !.left = Fields]]
    /\ UNCHANGED <<shared, admin>>

\* frozenConfigSlow copies the fields one by one, unsynchronised with their
\* assignment.
ReadField(p) ==
    /\ At(p, "freeze")
    /\ \E f \in req[p].left :
          req' = [req EXCEPT ![p].cand[f] = fields[f], ![p].left = @ \ {f}]
    /\ UNCHANGED <<shared, admin>>

SwapConfig(p) ==
    /\ At(p, "freeze") /\ req[p].left = {}
    /\ cfg' = IF cfg = Nil THEN req[p].cand ELSE cfg
    /\ req' = [req EXCEPT ![p] = IF cfg = Nil THEN Configured(p, req[p].cand)
                                 ELSE [@ EXCEPT !.pc = "reload"]]
    /\ UNCHANGED <<fields, middleware, redirectGen, redirectMW, pre, cache, lazyRedirect, admin>>

\* Mutant: the winner's copy is not checked.
ReloadConfigOnce(p) ==
    /\ At(p, "reload")
    /\ req' = [req EXCEPT ![p] = Configured(p, cfg)]
    /\ UNCHANGED <<shared, admin>>

\* The winner's copy, unless Rebuild has just cleared it: then swap again.
ReloadConfig(p) ==
    /\ At(p, "reload")
    /\ req' = [req EXCEPT ![p] = IF cfg # Nil THEN Configured(p, cfg)
                                 ELSE [@ EXCEPT !.pc = "freeze"]]
    /\ UNCHANGED <<shared, admin>>

\* Without Pre, dispatch; with it, its middleware answers or calls the handler
\* that asks for the configuration again.
Serve(p) ==
    /\ At(p, "serve")
    /\ \/ ~ pre /\ req' = [req EXCEPT ![p].pc = "dispatch", ![p].cfg = req[p].serve]
       \/ pre /\ req' = [req EXCEPT ![p].pc = "done"]
       \/ pre /\ req' = [req EXCEPT ![p].pc = "config", ![p].back = "dispatch"]
    /\ UNCHANGED <<shared, admin>>

\* dispatch: a route's handler, wrapped at registration, answers; or it fails
\* and HandleE looks up ErrorHandler; or the response is a redirect; or one of
\* the lazily built handlers answers.
Dispatch(p) ==
    /\ At(p, "dispatch")
    /\ \/ req' = [req EXCEPT ![p].pc = "done"]
       \/ req' = [req EXCEPT ![p].pc = "config", ![p].back = "error"]
       \/ req' = [req EXCEPT ![p].pc = "redirect"]
       \/ \E s \in Slots : req' = [req EXCEPT ![p].pc = "lookup", ![p].slot = s]
    /\ UNCHANGED <<shared, admin>>

\* lazyNotFound, lazyMethodNotAllowed and lazyOPTIONS: use the cached handler,
LookupHandler(p) ==
    /\ At(p, "lookup")
    /\ req' = [req EXCEPT ![p] =
                  IF cache[req[p].slot] # Nil
                  THEN [@ EXCEPT !.pc = "done", !.out = cache[req[p].slot]]
                  ELSE [@ EXCEPT !.pc = "wrap"]]
    /\ UNCHANGED <<shared, admin>>

\* or read the middleware under the read lock,
ReadMiddleware(p) ==
    /\ At(p, "wrap") /\ mu = Nil
    /\ req' = [req EXCEPT ![p].pc = "store", ![p].mw = middleware]
    /\ UNCHANGED <<shared, admin>>

\* and wrap the handler, store it, and answer with it.
StoreHandler(p) ==
    LET r == req[p]
        entry == [handler |-> r.cfg[FieldOf[r.slot]], mw |-> r.mw]
    IN  /\ At(p, "store")
        /\ cache' = [cache EXCEPT ![r.slot] = entry]
        /\ req' = [req EXCEPT ![p].pc = "done", ![p].mw = 0, ![p].out = entry]
        /\ UNCHANGED <<fields, cfg, middleware, redirectGen, redirectMW, pre, lazyRedirect, admin>>

\* A redirect is answered through a chain of mw middleware.
Redirected(p, mw) == [req[p] EXCEPT !.pc = "done", !.snap = Nil, !.cur = Nil,
                                    !.out = [handler |-> 0, mw |-> mw]]

\* serveRedirect: no middleware, no chain.
LoadSnapshot(p) ==
    /\ At(p, "redirect")
    /\ req' = [req EXCEPT ![p] =
                  IF redirectMW = Nil \/ redirectMW.mw = 0 THEN Redirected(p, 0)
                  ELSE [@ EXCEPT !.pc = "cached", !.snap = redirectMW]]
    /\ UNCHANGED <<shared, admin>>

\* Mutant: any cached chain will do.
LookupAnyRedirect(p) ==
    /\ At(p, "cached")
    /\ req' = [req EXCEPT ![p] = IF lazyRedirect # Nil THEN Redirected(p, lazyRedirect.mw)
                                 ELSE [@ EXCEPT !.pc = "newer"]]
    /\ UNCHANGED <<shared, admin>>

\* lazyRedirect: the cached chain of this generation,
LookupRedirect(p) ==
    LET hit == lazyRedirect # Nil /\ lazyRedirect.gen = req[p].snap.gen
    IN  /\ At(p, "cached")
        /\ req' = [req EXCEPT ![p] = IF hit THEN Redirected(p, lazyRedirect.mw)
                                     ELSE [@ EXCEPT !.pc = "newer"]]
        /\ UNCHANGED <<shared, admin>>

\* or one built here, published only over an older generation.
LoadRedirect(p) ==
    LET snap == req[p].snap
    IN  /\ At(p, "newer")
        /\ req' = [req EXCEPT ![p] =
              IF lazyRedirect # Nil /\ lazyRedirect.gen = snap.gen
              THEN Redirected(p, lazyRedirect.mw)
              ELSE IF lazyRedirect # Nil /\ lazyRedirect.gen > snap.gen
              THEN Redirected(p, snap.mw)
              ELSE [@ EXCEPT !.pc = "swap", !.cur = lazyRedirect]]
        /\ UNCHANGED <<shared, admin>>

\* Mutant: a plain Store instead of the compare-and-swap.
SwapRedirectStores(p) ==
    /\ At(p, "swap")
    /\ lazyRedirect' = req[p].snap
    /\ req' = [req EXCEPT ![p] = Redirected(p, req[p].snap.mw)]
    /\ UNCHANGED <<fields, cfg, middleware, redirectGen, redirectMW, pre, cache, admin>>

\* Mutant: a goroutine that loses the swap tries again with what it had read.
SwapRedirectSpins(p) ==
    /\ At(p, "swap") /\ lazyRedirect = req[p].cur
    /\ lazyRedirect' = req[p].snap
    /\ req' = [req EXCEPT ![p] = Redirected(p, req[p].snap.mw)]
    /\ UNCHANGED <<fields, cfg, middleware, redirectGen, redirectMW, pre, cache, admin>>

\* Entries of one generation differ in nothing a request sees, so the pointers
\* are compared by what they point to: a swap that fails only because another
\* entry of cur's generation took its place is tried again and succeeds.
SwapRedirect(p) ==
    LET won == lazyRedirect = req[p].cur
    IN  /\ At(p, "swap")
        /\ lazyRedirect' = IF won THEN req[p].snap ELSE lazyRedirect
        /\ req' = [req EXCEPT ![p] = IF won THEN Redirected(p, req[p].snap.mw)
                                     ELSE [@ EXCEPT !.pc = "newer", !.cur = Nil]]
        /\ UNCHANGED <<fields, cfg, middleware, redirectGen, redirectMW, pre, cache, admin>>

Finish(p) ==
    /\ At(p, "done")
    /\ req' = [req EXCEPT ![p] = Idle]
    /\ UNCHANGED <<shared, admin>>

Step(p) ==
    \/ LoadConfig(p) \/ ReadField(p) \/ SwapConfig(p) \/ ReloadConfig(p)
    \/ Serve(p) \/ Dispatch(p)
    \/ LookupHandler(p) \/ ReadMiddleware(p) \/ StoreHandler(p)
    \/ LoadSnapshot(p) \/ LookupRedirect(p) \/ LoadRedirect(p) \/ SwapRedirect(p)
    \/ Finish(p)

-----------------------------------------------------------------------------
(* Use, Pre and Rebuild: one store at a time.                              *)

\* The program assigns an exported field.
Assign(f) ==
    /\ MayCall("assign") /\ fields[f] < MaxAssign
    /\ fields' = [fields EXCEPT ![f] = @ + 1]
    /\ UNCHANGED <<cfg, middleware, redirectGen, redirectMW, pre, cache, lazyRedirect, admin, req>>

\* Use takes mu and appends k middleware.
Use(a, k) ==
    /\ prog[a] = <<>> /\ mu = Nil /\ MayCall("use") /\ done.uses < MaxUse
    /\ mu' = a
    /\ middleware' = middleware + k
    /\ prog' = [prog EXCEPT ![a] = <<"notFound", "notAllowed", "options", "snapshot">>]
    /\ done' = [done EXCEPT !.uses = @ + 1]
    /\ UNCHANGED <<fields, cfg, redirectGen, redirectMW, pre, cache, lazyRedirect, pending, req, overlap>>

Pre(a) ==
    /\ prog[a] = <<>> /\ mu = Nil /\ MayCall("use") /\ ~ pre
    /\ pre' = TRUE
    /\ UNCHANGED <<fields, cfg, middleware, redirectGen, redirectMW, cache, lazyRedirect, admin, req>>

\* Rebuild takes no lock.
Rebuild(a) ==
    /\ prog[a] = <<>> /\ MayCall("rebuild") /\ done.rebuilds < MaxRebuild
    /\ prog' = [prog EXCEPT ![a] = <<"cfg", "notFound", "redirect", "notAllowed", "options">>]
    /\ done' = [done EXCEPT !.rebuilds = @ + 1, !.from[a] = fields]
    /\ UNCHANGED <<shared, mu, pending, req, overlap>>

Newest(v, w) == [f \in Fields |-> IF v[f] < w[f] THEN w[f] ELSE v[f]]

\* The last store of a call: the call returns, and Use unlocks mu.
Store(a) ==
    /\ prog' = [prog EXCEPT ![a] = Tail(@)]
    /\ mu' = IF Len(prog[a]) = 1 /\ mu = a THEN Nil ELSE mu
    /\ done' = IF Len(prog[a]) > 1 THEN done
               ELSE IF mu = a THEN [done EXCEPT !.mw = middleware]
               ELSE [done EXCEPT !.fields = Newest(@, done.from[a])]
    /\ UNCHANGED overlap
AtStore(a, store) == prog[a] # <<>> /\ Head(prog[a]) = store

\* Mutant: Rebuild keeps the snapshot.
KeepConfig(a) ==
    /\ AtStore(a, "cfg") /\ Store(a)
    /\ UNCHANGED <<shared, pending, req>>

ClearConfig(a) ==
    /\ AtStore(a, "cfg") /\ Store(a)
    /\ cfg' = Nil
    /\ UNCHANGED <<fields, middleware, redirectGen, redirectMW, pre, cache, lazyRedirect, pending, req>>

\* Mutant: the cached 404 handler is kept.
KeepNotFound(a) ==
    /\ AtStore(a, "notFound") /\ Store(a)
    /\ UNCHANGED <<shared, pending, req>>

ClearNotFound(a) ==
    /\ AtStore(a, "notFound") /\ Store(a)
    /\ cache' = [s \in Slots |-> IF s \in NotFound THEN Nil ELSE cache[s]]
    /\ UNCHANGED <<fields, cfg, middleware, redirectGen, redirectMW, pre, lazyRedirect, pending, req>>

ClearRedirect(a) ==
    /\ AtStore(a, "redirect") /\ Store(a)
    /\ lazyRedirect' = Nil
    /\ UNCHANGED <<fields, cfg, middleware, redirectGen, redirectMW, pre, cache, pending, req>>

\* Range over a sync.Map visits the keys that are there when it starts, and
\* may or may not visit one that is stored meanwhile.
Keys(store) == IF store = "notAllowed" THEN NotAllowed ELSE Options

RangeKeys(a, store) ==
    /\ AtStore(a, store) /\ pending[a] = {}
    /\ LET there == {s \in Keys(store) : cache[s] # Nil}
       IN  \E more \in SUBSET (Keys(store) \ there) :
              IF there \cup more = {}
              THEN Store(a) /\ UNCHANGED pending
              ELSE /\ pending' = [pending EXCEPT ![a] = there \cup more]
                   /\ UNCHANGED <<mu, prog, done, overlap>>
    /\ UNCHANGED <<shared, req>>

\* Mutant: the callback visits the keys and deletes none.
KeepKey(a, s) ==
    /\ s \in pending[a]
    /\ pending' = [pending EXCEPT ![a] = @ \ {s}]
    /\ IF pending[a] = {s} THEN Store(a) ELSE UNCHANGED <<mu, prog, done, overlap>>
    /\ UNCHANGED <<shared, req>>

DeleteKey(a, s) ==
    /\ s \in pending[a]
    /\ cache' = [cache EXCEPT ![s] = Nil]
    /\ pending' = [pending EXCEPT ![a] = @ \ {s}]
    /\ IF pending[a] = {s} THEN Store(a) ELSE UNCHANGED <<mu, prog, done, overlap>>
    /\ UNCHANGED <<fields, cfg, middleware, redirectGen, redirectMW, pre, lazyRedirect, req>>

StoreSnapshot(a) ==
    /\ AtStore(a, "snapshot") /\ Store(a)
    /\ redirectGen' = redirectGen + 1
    /\ redirectMW' = [gen |-> redirectGen + 1, mw |-> middleware]
    /\ UNCHANGED <<fields, cfg, middleware, pre, cache, lazyRedirect, pending, req>>

Change(a) ==
    \/ ClearConfig(a) \/ ClearNotFound(a) \/ ClearRedirect(a) \/ StoreSnapshot(a)
    \/ \E store \in {"notAllowed", "options"} : RangeKeys(a, store)
    \/ \E s \in Slots : DeleteKey(a, s)

-----------------------------------------------------------------------------
Next == \/ \E p \in Request : Arrive(p) \/ Step(p)
        \/ \E f \in Fields : Assign(f)
        \/ \E a \in Admin : \/ \E k \in 0..1 : Use(a, k)
                            \/ Pre(a) \/ Rebuild(a) \/ Change(a)

\* Goroutines that run keep running; nobody has to call anything.
Fairness == /\ \A p \in Request : WF_vars(Step(p))
            /\ \A a \in Admin : WF_vars(Change(a))
Spec == Init /\ [][Next]_vars /\ Fairness

-----------------------------------------------------------------------------
(* What a request may rely on.                                             *)

Reloaded == {"dispatch", "redirect", "lookup", "wrap", "store", "cached", "newer", "swap"}

\* Every variable has its type, and no nil pointer is dereferenced: once config()
\* has returned there is a snapshot, whatever Rebuild clears meanwhile (the retry
\* loop of frozenConfigSlow), and lazyRedirect is called with a chain.
TypeOK ==
    /\ fields \in Conf /\ cfg \in Conf \cup {Nil} /\ pre \in BOOLEAN
    /\ middleware \in Nat /\ redirectGen \in Nat
    /\ redirectMW \in Chain \cup {Nil} /\ lazyRedirect \in Chain \cup {Nil}
    /\ cache \in [Slots -> Entry \cup {Nil}]
    /\ mu \in Admin \cup {Nil} /\ pending \in [Admin -> SUBSET Slots]
    /\ \A p \in Request :
          /\ At(p, "serve") => req[p].serve \in Conf
          /\ req[p].pc \in Reloaded => req[p].cfg \in Conf
          /\ req[p].pc \in {"cached", "newer", "swap"} => req[p].snap \in Chain

\* The cached redirect handler is only ever replaced by one of a newer
\* generation, or dropped by Rebuild, however late a goroutine arrives with an
\* old chain (lazyRedirect's compare-and-swap loop).
GenerationsGrow ==
    [][lazyRedirect # Nil /\ lazyRedirect' # Nil /\ lazyRedirect' # lazyRedirect
       => lazyRedirect'.gen > lazyRedirect.gen]_vars

RedirectExact ==
    lazyRedirect # Nil =>
        /\ redirectMW # Nil
        /\ lazyRedirect.gen <= redirectMW.gen
        /\ lazyRedirect.gen = redirectMW.gen => lazyRedirect.mw = redirectMW.mw

Redirecting(p) == req[p].out # Nil /\ req[p].slot = Nil

\* A redirect runs every middleware that a Use which returned before the request
\* arrived had registered (the live binding of redirect responses); and the cached
\* redirect handler is never ahead of the published chain, and is wrapped with exactly
\* that chain when their generations agree.
RedirectCurrent ==
    /\ RedirectExact
    /\ \A p \in Request : Redirecting(p) => req[p].out.mw >= req[p].since.mw

\* The same of the cached 404, 405 and OPTIONS handlers, if Use is not called
\* while requests are in flight (SECURITY.md forbids that).
LiveBinding ==
    "use" \notin overlap =>
        \A p \in Request :
            req[p].out # Nil /\ ~ Redirecting(p) => req[p].out.mw >= req[p].since.mw

AtLeast(v, w) == \A f \in Fields : v[f] >= w[f]

\* A request that arrives after a Rebuild returned is configured by values no
\* older than those the Rebuild was called with, if fields are assigned only
\* between requests; Rebuild itself may overlap any of them.
ConfigCurrent ==
    "assign" \notin overlap =>
        \A p \in Request : \A c \in {req[p].serve, req[p].cfg} :
            c # Nil => AtLeast(c, req[p].since.fields)

\* Such a request is answered by a handler no older than that: "the next request
\* uses the new value" (docs/configuration.md).
RebuildTakesEffect ==
    \A p \in Request :
        req[p].out # Nil /\ ~ Redirecting(p)
        => req[p].out.handler >= req[p].since.fields[FieldOf[req[p].slot]]

\* One request works with one snapshot: "each request sees either the old or the
\* new snapshot, never a mix" (README.md).
OneSnapshot ==
    \A p \in Request : req[p].cfg # Nil => req[p].cfg = req[p].serve

\* Both hold of a program that reconfigures only between requests: Rebuild takes effect
\* with the next one, and none mixes two configurations.
QuietExact == overlap = {} => RebuildTakesEffect /\ OneSnapshot

\* Every request is answered: no retry loop holds one up for ever, as long as
\* Use and Rebuild are not called for ever.
Answered == \A p \in Request : ~ At(p, "idle") ~> At(p, "idle")
=============================================================================
