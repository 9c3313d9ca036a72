-------------------------- MODULE ServeCachesProofs --------------------------
(***************************************************************************)
(* What requests may rely on while Use, Pre and Rebuild change the Mux     *)
(* under them: for any number of requests, of goroutines that reconfigure, *)
(* of fields and of cached handlers.                                       *)
(***************************************************************************)
EXTENDS ServeCaches, TLAPS

\* Nil is nothing else.
LEMMA NilIsNone == /\ Nil \notin Admin /\ Nil \notin Slots
                   /\ Nil \notin Conf /\ Nil \notin Chain /\ Nil \notin Entry
BY SlotsAssumption DEF SlotsAssumption

(* The stores Use and Rebuild have still to make, as far as they have come. *)
U4 == <<"snapshot">>
U3 == <<"options", "snapshot">>
U2 == <<"notAllowed", "options", "snapshot">>
U1 == <<"notFound", "notAllowed", "options", "snapshot">>
R5 == <<"options">>
R4 == <<"notAllowed", "options">>
R3 == <<"redirect", "notAllowed", "options">>
R2 == <<"notFound", "redirect", "notAllowed", "options">>
R1 == <<"cfg", "notFound", "redirect", "notAllowed", "options">>
Using == {U1, U2, U3, U4}
Rebuilding == {R1, R2, R3, R4, R5}

Points == {"idle", "config", "freeze", "reload", "serve", "done"} \cup Reloaded
Local == [pc: Points, back: {"serve", "dispatch", "error"}, serve: Conf \cup {Nil},
          cfg: Conf \cup {Nil}, cand: Conf, left: SUBSET Fields, slot: Slots \cup {Nil},
          mw: Nat, snap: Chain \cup {Nil}, cur: Chain \cup {Nil}, out: Entry \cup {Nil},
          since: [mw: Nat, fields: Conf]]
Done == [mw: Nat, uses: Nat, rebuilds: Nat, fields: Conf, from: [Admin -> Conf]]

\* What a request has read when it comes to a point of its code.
LocalOK(r) ==
    /\ r \in Local /\ (r.pc = "idle" => r = Idle)
    /\ r.pc = "serve" => r.serve \in Conf
    /\ r.pc \in Reloaded => r.cfg \in Conf
    /\ r.pc \in {"cached", "newer", "swap"} => r.snap \in Chain
    /\ r.pc \in {"lookup", "wrap", "store"} => r.slot \in Slots
    /\ r.pc = "swap" /\ r.cur # Nil => r.cur.gen < r.snap.gen
    /\ r.back = "dispatch" => r.serve \in Conf
    /\ r.slot # Nil => r.pc \in {"lookup", "wrap", "store", "done"}
    /\ r.out # Nil => r.pc = "done"

\* Only Use holds mu, and only while it has stores to make; a Range is under way only
\* at its own store.
ProgOK(a) ==
    /\ IF mu = a THEN prog[a] \in Using ELSE prog[a] \in Rebuilding \cup {<<>>}
    /\ pending[a] # {} => \/ prog[a] \in {U2, R4} /\ pending[a] \subseteq NotAllowed
                          \/ prog[a] \in {U3, R5} /\ pending[a] \subseteq Options

SharedOK ==
    /\ fields \in Conf /\ cfg \in Conf \cup {Nil} /\ pre \in BOOLEAN
    /\ middleware \in Nat /\ redirectGen \in Nat
    /\ redirectMW \in Chain \cup {Nil} /\ lazyRedirect \in Chain \cup {Nil}
    /\ cache \in [Slots -> Entry \cup {Nil}]

Typed == /\ SharedOK
         /\ mu \in Admin \cup {Nil} /\ pending \in [Admin -> SUBSET Slots]
         /\ done \in Done /\ overlap \subseteq {"use", "rebuild", "assign"}
         /\ DOMAIN prog = Admin /\ \A a \in Admin : ProgOK(a)
         /\ DOMAIN req = Request /\ \A p \in Request : LocalOK(req[p])

-----------------------------------------------------------------------------
\* The chains of middleware that are around: of one generation there is one chain, and
\* none is newer than the published one.
Around == ({lazyRedirect, redirectMW} \cup {req[p].snap : p \in Request}) \ {Nil}
Chains == /\ \A c, d \in Around : c.gen = d.gen => c.mw = d.mw
          /\ \A c \in Around : redirectMW # Nil /\ c.gen <= redirectMW.gen
          /\ IF redirectMW = Nil THEN redirectGen = 0 /\ done.mw = 0
             ELSE /\ redirectMW.gen = redirectGen
                  /\ done.mw <= redirectMW.mw /\ redirectMW.mw <= middleware
          /\ done.mw <= middleware

\* What a redirect runs is no older than the Use calls that returned before it.
SinceOK(p) ==
    /\ ~ At(p, "idle") => req[p].since.mw <= done.mw
    /\ req[p].pc \in {"cached", "newer", "swap"} => req[p].snap.mw >= req[p].since.mw
    /\ Redirecting(p) => req[p].out.mw >= req[p].since.mw
RedirectSince == \A p \in Request : SinceOK(p)

-----------------------------------------------------------------------------
\* A configuration that is published, or is being copied, when fields are assigned only
\* between requests.
FieldsSince ==
    /\ AtLeast(fields, done.fields)
    /\ \A a \in Admin : prog[a] \in Rebuilding => AtLeast(fields, done.from[a])
    /\ cfg # Nil => /\ AtLeast(cfg, done.fields)
                    /\ \A a \in Admin : prog[a] \in Rebuilding \ {R1} =>
                          AtLeast(cfg, done.from[a])
CopySince(p) ==
    /\ req[p].pc \in {"freeze", "reload"} =>
          \A f \in Fields \ req[p].left : req[p].cand[f] = fields[f]
    /\ req[p].pc = "reload" => req[p].left = {}
    /\ ~ At(p, "idle") => AtLeast(done.fields, req[p].since.fields)
    /\ \A c \in {req[p].serve, req[p].cfg} : c # Nil => AtLeast(c, req[p].since.fields)
ConfigSince ==
    "assign" \notin overlap => FieldsSince /\ \A p \in Request : CopySince(p)

-----------------------------------------------------------------------------
\* The handlers that a call has already dropped.
Dropped(a, s) ==
    \/ s \in NotFound /\ prog[a] \notin {U1, R1, R2}
    \/ s \in NotAllowed /\ \/ prog[a] \in {U3, U4, R5, <<>>}
                           \/ prog[a] \in {U2, R4} /\ pending[a] # {} /\ s \notin pending[a]
    \/ s \in Options /\ \/ prog[a] \in {U4, <<>>}
                        \/ prog[a] \in {U3, R5} /\ pending[a] # {} /\ s \notin pending[a]

AllIdle == \A p \in Request : At(p, "idle")

\* The cached handlers, when Use is called only between requests.
HandlersSince ==
    /\ mu # Nil => AllIdle /\ \A s \in Slots : Dropped(mu, s) => cache[s] = Nil
    /\ mu = Nil => /\ done.mw = middleware
                   /\ \A s \in Slots : cache[s] # Nil => cache[s].mw = middleware
WrapSince(p) ==
    /\ At(p, "store") => req[p].mw = middleware
    /\ req[p].out # Nil /\ ~ Redirecting(p) => req[p].out.mw >= req[p].since.mw
CachedSince ==
    "use" \notin overlap => HandlersSince /\ \A p \in Request : WrapSince(p)

\* And when nothing is called or assigned while requests are in flight.
QuietCache ==
    /\ \A a \in Admin : prog[a] # <<>> =>
          AllIdle /\ \A s \in Slots : Dropped(a, s) => cache[s] = Nil
    /\ \A s \in Slots : cache[s] # Nil => cache[s].handler >= done.fields[FieldOf[s]]
QuietRequest(p) ==
    /\ req[p].serve # Nil => req[p].serve = cfg
    /\ req[p].cfg # Nil => req[p].cfg = cfg /\ req[p].cfg = req[p].serve
    /\ req[p].out # Nil /\ ~ Redirecting(p) =>
          req[p].out.handler >= req[p].since.fields[FieldOf[req[p].slot]]
QuietSince ==
    overlap = {} => QuietCache /\ \A p \in Request : QuietRequest(p)

-----------------------------------------------------------------------------
(* The stores of Use and Rebuild.                                          *)

\* The stores of Use, one after the other.
LEMMA UseStores ==
    /\ Head(U1) = "notFound"   /\ Tail(U1) = U2 /\ Len(U1) = 4
    /\ Head(U2) = "notAllowed" /\ Tail(U2) = U3 /\ Len(U2) = 3
    /\ Head(U3) = "options"    /\ Tail(U3) = U4 /\ Len(U3) = 2
    /\ Head(U4) = "snapshot"   /\ Tail(U4) = <<>> /\ Len(U4) = 1
BY DEF U1, U2, U3, U4

\* The stores of Rebuild, one after the other.
LEMMA RebuildStores ==
    /\ Head(R1) = "cfg"        /\ Tail(R1) = R2 /\ Len(R1) = 5
    /\ Head(R2) = "notFound"   /\ Tail(R2) = R3 /\ Len(R2) = 4
    /\ Head(R3) = "redirect"   /\ Tail(R3) = R4 /\ Len(R3) = 3
    /\ Head(R4) = "notAllowed" /\ Tail(R4) = R5 /\ Len(R4) = 2
    /\ Head(R5) = "options"    /\ Tail(R5) = <<>> /\ Len(R5) = 1
BY DEF R1, R2, R3, R4, R5

\* How far a call has come tells what it does next, and the calls differ.
LEMMA StoresDiffer ==
    /\ Len(<<>>) = 0
    /\ \A t \in Using \cup Rebuilding : t # <<>>
    /\ \A t \in Using : t \notin Rebuilding
<1>1. Len(<<>>) = 0
  OBVIOUS
<1>2. \A t \in Using : t # <<>>
  BY DEF Using, U1, U2, U3, U4
<1>3. \A t \in Rebuilding : t # <<>>
  BY DEF Rebuilding, R1, R2, R3, R4, R5
<1>4. \A t \in Using : t \notin Rebuilding
  <2>1. U1 \notin Rebuilding
    BY DEF Rebuilding, U1, R1, R2, R3, R4, R5
  <2>2. U2 \notin Rebuilding
    BY DEF Rebuilding, U2, R1, R2, R3, R4, R5
  <2>3. U3 \notin Rebuilding
    BY DEF Rebuilding, U3, R1, R2, R3, R4, R5
  <2>4. U4 \notin Rebuilding
    BY DEF Rebuilding, U4, R1, R2, R3, R4, R5
  <2> QED
    BY <2>1, <2>2, <2>3, <2>4 DEF Using
<1> QED
  BY <1>1, <1>2, <1>3, <1>4

\* Which call is at which store.
LEMMA StoreOf ==
    ASSUME NEW a \in Admin, ProgOK(a)
    PROVE  /\ AtStore(a, "cfg") => prog[a] = R1
           /\ AtStore(a, "notFound") => prog[a] \in {U1, R2}
           /\ AtStore(a, "redirect") => prog[a] = R3
           /\ AtStore(a, "notAllowed") => prog[a] \in {U2, R4}
           /\ AtStore(a, "options") => prog[a] \in {U3, R5}
           /\ AtStore(a, "snapshot") => prog[a] = U4
BY UseStores, RebuildStores DEF ProgOK, AtStore, Using, Rebuilding

\* What the end of a store does to the call: it goes on, or it returns.
LEMMA StoreMoves ==
    ASSUME NEW a \in Admin, ProgOK(a), Store(a), prog[a] # <<>>
    PROVE  /\ prog[a] \in Using => mu = a
           /\ prog[a] \in Rebuilding => mu # a
           /\ prog[a] \in {U1, U2, U3, R1, R2, R3, R4} => mu' = mu /\ done' = done
           /\ prog[a] = U4 => mu' = Nil /\ done' = [done EXCEPT !.mw = middleware]
           /\ prog[a] = R5 =>
                mu' = mu /\ done' = [done EXCEPT !.fields = Newest(done.fields, done.from[a])]
           /\ overlap' = overlap
<1>1. (prog[a] \in Using => mu = a) /\ (prog[a] \in Rebuilding => mu # a)
  BY StoresDiffer DEF ProgOK
<1>2. prog[a] \in {U1, U2, U3, R1, R2, R3, R4} => Len(prog[a]) \in {2, 3, 4, 5}
  BY UseStores, RebuildStores
<1>3. prog[a] \in {U4, R5} => Len(prog[a]) = 1
  BY UseStores, RebuildStores
<1>4. U4 \in Using /\ R5 \in Rebuilding
  BY DEF Using, Rebuilding
<1>5. ASSUME prog[a] \in {U1, U2, U3, R1, R2, R3, R4} PROVE mu' = mu /\ done' = done
  <2>1. Len(prog[a]) # 1 /\ Len(prog[a]) > 1
    BY <1>2, <1>5
  <2> QED
    BY <2>1 DEF Store
<1>6. ASSUME prog[a] = U4
      PROVE  mu' = Nil /\ done' = [done EXCEPT !.mw = middleware]
  <2>1. Len(prog[a]) = 1 /\ ~ (Len(prog[a]) > 1) /\ mu = a
    BY <1>1, <1>3, <1>4, <1>6
  <2> QED
    BY <2>1 DEF Store
<1>7. ASSUME prog[a] = R5
      PROVE  mu' = mu /\ done' = [done EXCEPT !.fields = Newest(done.fields, done.from[a])]
  <2>1. mu # a
    BY <1>1, <1>4, <1>7
  <2>2. Len(prog[a]) = 1
    BY <1>3, <1>7
  <2>3. ~ (Len(prog[a]) > 1)
    BY <2>2
  <2> QED
    BY <2>1, <2>2, <2>3 DEF Store, Newest
<1> QED
  BY <1>1, <1>5, <1>6, <1>7 DEF Store

\* A store is followed by the next one of the same call.
LEMMA StoreNext ==
    ASSUME NEW a \in Admin, DOMAIN prog = Admin, Store(a)
    PROVE  /\ prog'[a] = Tail(prog[a])
           /\ DOMAIN prog' = Admin /\ \A b \in Admin \ {a} : prog'[b] = prog[b]
           /\ prog[a] = U1 => prog'[a] = U2
           /\ prog[a] = U2 => prog'[a] = U3
           /\ prog[a] = U3 => prog'[a] = U4
           /\ prog[a] \in {U4, R5} => prog'[a] = <<>>
           /\ prog[a] = R1 => prog'[a] = R2
           /\ prog[a] = R2 => prog'[a] = R3
           /\ prog[a] = R3 => prog'[a] = R4
           /\ prog[a] = R4 => prog'[a] = R5
<1>1. prog'[a] = Tail(prog[a])
      /\ DOMAIN prog' = Admin /\ \A b \in Admin \ {a} : prog'[b] = prog[b]
  BY DEF Store
<1> QED
  BY <1>1, UseStores, RebuildStores

\* The calls of all keep what they have, and pending holds the keys of the store at hand.
LEMMA StoreProgs ==
    ASSUME Typed, NEW a \in Admin, Store(a), prog[a] # <<>>,
           \A b \in Admin \ {a} : pending'[b] = pending[b], pending'[a] = {}
    PROVE  /\ \A b \in Admin : ProgOK(b)'
           /\ done' \in Done /\ mu' \in Admin \cup {Nil} /\ DOMAIN prog' = Admin
<1>0. ProgOK(a) /\ prog[a] \in Using \cup Rebuilding
  BY DEF Typed, ProgOK
<1>1. /\ DOMAIN prog' = Admin /\ \A b \in Admin \ {a} : prog'[b] = prog[b]
      /\ prog[a] = U1 => prog'[a] = U2
      /\ prog[a] = U2 => prog'[a] = U3
      /\ prog[a] = U3 => prog'[a] = U4
      /\ prog[a] \in {U4, R5} => prog'[a] = <<>>
      /\ prog[a] = R1 => prog'[a] = R2
      /\ prog[a] = R2 => prog'[a] = R3
      /\ prog[a] = R3 => prog'[a] = R4
      /\ prog[a] = R4 => prog'[a] = R5
  BY StoreNext DEF Typed
<1>2. /\ prog[a] \in Using => mu = a
      /\ prog[a] \in Rebuilding => mu # a
      /\ prog[a] \in {U1, U2, U3, R1, R2, R3, R4} => mu' = mu /\ done' = done
      /\ prog[a] = U4 => mu' = Nil /\ done' = [done EXCEPT !.mw = middleware]
      /\ prog[a] = R5 =>
           mu' = mu /\ done' = [done EXCEPT !.fields = Newest(done.fields, done.from[a])]
  BY <1>0, StoreMoves
<1>3. done' \in Done
  <2>1. done \in Done /\ middleware \in Nat
    BY DEF Typed, SharedOK
  <2>2. Newest(done.fields, done.from[a]) \in Conf
    BY <2>1 DEF Done, Conf, Newest
  <2>3. CASE prog[a] = U4
    BY <1>2, <2>1, <2>3 DEF Done
  <2>4. CASE prog[a] = R5
    <3>1. done' = [done EXCEPT !.fields = Newest(done.fields, done.from[a])]
      BY <1>2, <2>4
    <3> QED
      BY <3>1, <2>1, <2>2 DEF Done
  <2>5. CASE prog[a] \in {U1, U2, U3, R1, R2, R3, R4}
    BY <1>2, <2>1, <2>5
  <2> QED
    BY <1>0, <2>3, <2>4, <2>5 DEF Using, Rebuilding
<1>4. ProgOK(a)'
  BY <1>0, <1>1, <1>2, NilIsNone DEF Using, Rebuilding, ProgOK
<1>5. ASSUME NEW b \in Admin \ {a} PROVE ProgOK(b)'
  <2>1. ProgOK(b) /\ prog'[b] = prog[b] /\ pending'[b] = pending[b]
    BY <1>1 DEF Typed
  <2>2. mu' = b <=> mu = b
    BY <1>0, <1>2, NilIsNone DEF Using, Rebuilding
  <2> QED
    BY <2>1, <2>2 DEF ProgOK
<1>6. mu' \in Admin \cup {Nil}
  BY <1>0, <1>2 DEF Typed, Using, Rebuilding
<1> QED
  BY <1>1, <1>3, <1>4, <1>5, <1>6

-----------------------------------------------------------------------------
(* Types.                                                                  *)

\* A request that has not arrived has read nothing.
LEMMA IdleLocal == LocalOK(Idle)
BY DEF LocalOK, Idle, Local, Points, Conf, Reloaded

\* A step of p leaves the other requests and the goroutines that reconfigure alone.
LEMMA OthersKeep ==
    ASSUME DOMAIN req = Request, NEW p \in Request, Arrive(p) \/ Step(p)
    PROVE  /\ DOMAIN req' = Request /\ \A q \in Request \ {p} : req'[q] = req[q]
           /\ UNCHANGED <<fields, middleware, redirectGen, redirectMW, pre>>
           /\ UNCHANGED <<mu, prog, pending, done, overlap>>
<1> USE DEF shared, admin
<1>1. CASE Arrive(p) \/ LoadConfig(p) \/ ReadField(p) \/ SwapConfig(p) \/ ReloadConfig(p)
  BY <1>1 DEF Arrive, LoadConfig, ReadField, SwapConfig, ReloadConfig
<1>2. CASE Serve(p) \/ Dispatch(p) \/ LookupHandler(p) \/ ReadMiddleware(p) \/ StoreHandler(p)
  BY <1>2 DEF Serve, Dispatch, LookupHandler, ReadMiddleware, StoreHandler
<1>3. CASE LoadSnapshot(p) \/ LookupRedirect(p) \/ LoadRedirect(p) \/ SwapRedirect(p) \/ Finish(p)
  BY <1>3 DEF LoadSnapshot, LookupRedirect, LoadRedirect, SwapRedirect, Finish
<1> QED
  BY <1>1, <1>2, <1>3 DEF Step

\* Where config() returns to, and what it leaves alone.
LEMMA ConfiguredLocal ==
    ASSUME NEW p, LocalOK(req[p]), NEW c \in Conf, req[p].pc \in {"config", "freeze", "reload"}
    PROVE  LET r == req[p]
               s == Configured(p, c)
           IN  /\ LocalOK(s) /\ s.pc \in {"serve", "dispatch", "done"}
               /\ s.since = r.since /\ s.out = r.out /\ s.slot = r.slot /\ s.mw = r.mw
               /\ s.snap = r.snap /\ s.cur = r.cur
               /\ s.serve = IF r.back = "serve" THEN c ELSE r.serve
               /\ s.cfg = IF r.back = "dispatch" THEN c ELSE r.cfg
<1> DEFINE r == req[p]
           s == Configured(p, c)
           d == [r EXCEPT !.cand = Idle.cand, !.back = "serve"]
           Same(x) == /\ x.since = r.since /\ x.out = r.out /\ x.slot = r.slot /\ x.mw = r.mw
                      /\ x.snap = r.snap /\ x.cur = r.cur
           Good(x) == /\ LocalOK(x) /\ x.pc \in {"serve", "dispatch", "done"} /\ Same(x)
                      /\ x.serve = IF r.back = "serve" THEN c ELSE r.serve
                      /\ x.cfg = IF r.back = "dispatch" THEN c ELSE r.cfg
<1>0. r \in Local /\ Idle.cand \in Conf
  BY DEF LocalOK, Idle, Conf
<1>4. d \in Local /\ d.back = "serve" /\ Same(d) /\ d.serve = r.serve /\ d.cfg = r.cfg
  BY <1>0 DEF Local
<1>5. r.slot = Nil /\ r.out = Nil
  BY <1>0 DEF LocalOK
<1> HIDE DEF d
<1>1. ASSUME r.back = "serve" PROVE Good(s)
  <2>1. s = [d EXCEPT !.pc = "serve", !.serve = c]
    BY <1>1 DEF Configured, d
  <2> HIDE DEF s
  <2>2. s \in Local
    <3>1. d \in Local /\ "serve" \in Points /\ c \in Conf
      BY <1>4 DEF Points, Reloaded
    <3> QED
      BY <3>1, <2>1 DEF Local
  <2>3. /\ s.pc = "serve" /\ s.back = "serve" /\ Same(s)
        /\ s.serve = c /\ s.cfg = r.cfg
    BY <1>4, <2>1 DEF Local
  <2>4. LocalOK(s)
    <3>1. s.slot = Nil /\ s.out = Nil
      BY <1>5, <2>3
    <3> HIDE DEF Same, r
    <3> QED
      BY <2>2, <2>3, <3>1 DEF LocalOK, Reloaded
  <2> QED
    BY <1>1, <2>3, <2>4
<1>2. ASSUME r.back = "dispatch" PROVE Good(s)
  <2>1. s = [d EXCEPT !.pc = "dispatch", !.cfg = c]
    BY <1>2 DEF Configured, d
  <2> HIDE DEF s
  <2>2. s \in Local
    <3>1. d \in Local /\ "dispatch" \in Points /\ c \in Conf
      BY <1>4 DEF Points, Reloaded
    <3> QED
      BY <3>1, <2>1 DEF Local
  <2>3. /\ s.pc = "dispatch" /\ s.back = "serve" /\ Same(s)
        /\ s.serve = r.serve /\ s.cfg = c
    BY <1>4, <2>1 DEF Local
  <2>4. LocalOK(s)
    <3>1. s.slot = Nil /\ s.out = Nil
      BY <1>5, <2>3
    <3> HIDE DEF Same, r
    <3> QED
      BY <2>2, <2>3, <3>1 DEF LocalOK, Reloaded
  <2> QED
    BY <1>2, <2>3, <2>4
<1>3. ASSUME r.back = "error" PROVE Good(s)
  <2>1. s = [d EXCEPT !.pc = "done"]
    BY <1>3 DEF Configured, d
  <2> HIDE DEF s
  <2>2. s \in Local
    <3>1. d \in Local /\ "done" \in Points /\ c \in Conf
      BY <1>4 DEF Points, Reloaded
    <3> QED
      BY <3>1, <2>1 DEF Local
  <2>3. /\ s.pc = "done" /\ s.back = "serve" /\ Same(s)
        /\ s.serve = r.serve /\ s.cfg = r.cfg
    BY <1>4, <2>1 DEF Local
  <2>4. LocalOK(s)
    <3>1. s.slot = Nil /\ s.out = Nil
      BY <1>5, <2>3
    <3> HIDE DEF Same, r
    <3> QED
      BY <2>2, <2>3, <3>1 DEF LocalOK, Reloaded
  <2> QED
    BY <1>3, <2>3, <2>4
<1>6. r.back \in {"serve", "dispatch", "error"}
  BY <1>0 DEF Local
<1>7. Good(s)
  BY <1>1, <1>2, <1>3, <1>6
<1> QED
  BY <1>7

\* A redirect is answered.
LEMMA RedirectedLocal ==
    ASSUME NEW p, LocalOK(req[p]), NEW mw, mw \in Nat
    PROVE  LET r == req[p]
               s == Redirected(p, mw)
           IN  /\ LocalOK(s) /\ s.pc = "done" /\ s.out = [handler |-> 0, mw |-> mw]
               /\ s.since = r.since /\ s.slot = r.slot /\ s.mw = r.mw
               /\ s.snap = Nil /\ s.serve = r.serve /\ s.cfg = r.cfg
<1> DEFINE r == req[p]
           s == Redirected(p, mw)
<1>1. r \in Local
  BY DEF LocalOK
<1>2. s = [r EXCEPT !.pc = "done", !.snap = Nil, !.cur = Nil, !.out = [handler |-> 0, mw |-> mw]]
  BY DEF Redirected
<1>3. [handler |-> 0, mw |-> mw] \in Entry
  BY DEF Entry
<1> HIDE DEF r, s
<1>4. s \in Local /\ s.pc = "done" /\ s.out = [handler |-> 0, mw |-> mw]
      /\ s.since = r.since /\ s.slot = r.slot /\ s.mw = r.mw
      /\ s.snap = Nil /\ s.serve = r.serve /\ s.cfg = r.cfg /\ s.back = r.back
  BY <1>1, <1>2, <1>3 DEF Local, Points
<1> QED
  BY <1>4 DEF LocalOK, Reloaded, r, s

\* A request that answers with the handler e.
LEMMA HandlerLocal ==
    ASSUME NEW r \in Local, NEW e \in Entry
    PROVE  LET s == [r EXCEPT !.pc = "done", !.mw = 0, !.out = e]
           IN  s \in Local /\ s.pc = "done" /\ s.back = r.back /\ s.serve = r.serve
BY DEF Local, Points

\* A request that goes on to another point of its code.
LEMMA PointLocal ==
    ASSUME NEW r \in Local, NEW to \in Points
    PROVE  LET s == [r EXCEPT !.pc = to]
           IN  /\ s \in Local /\ s.pc = to /\ s.back = r.back /\ s.serve = r.serve
               /\ s.cfg = r.cfg /\ s.slot = r.slot /\ s.snap = r.snap /\ s.out = r.out
BY DEF Local

\* A request that loads the chain c.
LEMMA SnapshotLocal ==
    ASSUME NEW r \in Local, NEW c \in Chain
    PROVE  LET s == [r EXCEPT !.pc = "cached", !.snap = c]
           IN  /\ s \in Local /\ s.pc = "cached" /\ s.snap = c /\ s.cfg = r.cfg
               /\ s.back = r.back /\ s.serve = r.serve /\ s.slot = r.slot /\ s.out = r.out
BY DEF Local, Points, Reloaded

\* A step of a request keeps the types of its locals and of what is shared.
LEMMA LocalStep ==
    ASSUME Typed, NEW p \in Request, Arrive(p) \/ Step(p)
    PROVE  LocalOK(req'[p]) /\ SharedOK'
<1> DEFINE r == req[p]
<1>0. LocalOK(r) /\ r \in Local /\ SharedOK /\ done \in Done /\ DOMAIN req = Request
  BY DEF Typed, LocalOK
<1>f. \A f \in Fields : fields[f] \in Nat
  BY <1>0 DEF SharedOK, Conf
<1>u. UNCHANGED <<fields, middleware, redirectGen, redirectMW, pre>>
  BY <1>0, OthersKeep
\* Most steps change none of the variables of SharedOK.
<1>s. UNCHANGED <<cfg, cache, lazyRedirect>> => SharedOK'
  BY <1>0, <1>u DEF SharedOK
<1>c. SharedOK /\ cfg' \in Conf \cup {Nil} /\ UNCHANGED <<cache, lazyRedirect>> => SharedOK'
  BY <1>u DEF SharedOK
<1> USE DEF shared
<1>1. CASE Arrive(p)
  <2>1. [Idle EXCEPT !.pc = "config",
             !.since = [mw |-> done.mw, fields |-> done.fields]] \in Local
    <3>1. Idle \in Local
      BY IdleLocal DEF LocalOK
    <3>2. [mw |-> done.mw, fields |-> done.fields] \in [mw: Nat, fields: Conf]
      BY <1>0 DEF Done
    <3> QED
      BY <3>1, <3>2 DEF Local, Points
  <2>2. req'[p] = [Idle EXCEPT !.pc = "config",
             !.since = [mw |-> done.mw, fields |-> done.fields]]
    BY <1>0, <1>1 DEF Arrive
  <2>3. req'[p].pc = "config" /\ req'[p].back = "serve" /\ req'[p].slot = Nil /\ req'[p].out = Nil
    BY <2>2 DEF Idle
  <2> QED
    BY <1>1, <1>s, <2>1, <2>2, <2>3 DEF Arrive, LocalOK, Reloaded
<1>2. CASE LoadConfig(p)
  <2>1. CASE cfg # Nil
    <3>1. req'[p] = Configured(p, cfg) /\ cfg \in Conf
      BY <1>0, <1>2, <2>1 DEF LoadConfig, SharedOK
    <3> QED
      BY <1>0, <1>2, <1>s, <3>1, ConfiguredLocal DEF LoadConfig, At
  <2>2. CASE cfg = Nil
    <3>1. req'[p] = [r EXCEPT !.pc = "freeze", !.left = Fields]
      BY <1>0, <1>2, <2>2 DEF LoadConfig
    <3>2. req'[p] \in Local
      BY <1>0, <3>1 DEF Local, Points
    <3>3. req'[p].pc = "freeze" /\ req'[p].back = r.back
          /\ req'[p].serve = r.serve /\ req'[p].slot = r.slot /\ req'[p].out = r.out
      BY <1>0, <3>1 DEF Local
    <3> QED
      BY <1>0, <1>2, <1>s, <3>2, <3>3 DEF LoadConfig, LocalOK, Reloaded, At
  <2> QED
    BY <2>1, <2>2
<1>3. CASE ReadField(p)
  <2>1. PICK f \in r.left : req' = [req EXCEPT ![p].cand[f] = fields[f], ![p].left = @ \ {f}]
    BY <1>3 DEF ReadField
  <2>2. f \in Fields /\ r.pc = "freeze"
    BY <1>0, <1>3 DEF ReadField, At, Local
  <2>3. req'[p] = [r EXCEPT !.cand = [r.cand EXCEPT ![f] = fields[f]], !.left = r.left \ {f}]
    BY <1>0, <2>1 DEF Local
  <2>4. [r.cand EXCEPT ![f] = fields[f]] \in Conf /\ r.left \ {f} \in SUBSET Fields
    BY <1>0, <1>f, <2>2 DEF Local, Conf
  <2>5. req'[p] \in Local /\ req'[p].pc = "freeze" /\ req'[p].back = r.back
        /\ req'[p].serve = r.serve /\ req'[p].slot = r.slot /\ req'[p].out = r.out
    <3> DEFINE k == [r.cand EXCEPT ![f] = fields[f]]
               left == r.left \ {f}
    <3>1. r \in Local /\ k \in Conf /\ left \in SUBSET Fields /\ req'[p] = [r EXCEPT !.cand = k, !.left = left]
      BY <1>0, <2>3, <2>4
    <3> HIDE DEF k, left, r
    <3>2. req'[p] \in Local
      BY ONLY <3>1 DEF Local
    <3>3. req'[p].pc = r.pc /\ req'[p].back = r.back
          /\ req'[p].serve = r.serve /\ req'[p].slot = r.slot /\ req'[p].out = r.out
      BY ONLY <3>1 DEF Local
    <3> QED
      BY <2>2, <3>2, <3>3
  <2> QED
    BY <1>0, <1>3, <1>s, <2>2, <2>5 DEF ReadField, LocalOK, Reloaded
<1>4. CASE SwapConfig(p)
  <2>1. CASE cfg = Nil
    <3>1. req'[p] = Configured(p, r.cand) /\ r.cand \in Conf /\ cfg' = r.cand
      BY <1>0, <1>4, <2>1 DEF SwapConfig, Local
    <3> QED
      BY <1>0, <1>4, <1>c, <3>1, ConfiguredLocal DEF SwapConfig, At
  <2>2. CASE cfg # Nil
    <3>1. req'[p] = [r EXCEPT !.pc = "reload"] /\ cfg' = cfg
      BY <1>0, <1>4, <2>2 DEF SwapConfig
    <3>2. req'[p] \in Local /\ req'[p].pc = "reload" /\ req'[p].back = r.back
          /\ req'[p].serve = r.serve /\ req'[p].slot = r.slot /\ req'[p].out = r.out
      BY <1>0, <3>1 DEF Local, Points
    <3> QED
      BY <1>0, <1>4, <1>s, <3>1, <3>2 DEF SwapConfig, LocalOK, Reloaded, At
  <2> QED
    BY <2>1, <2>2
<1>5. CASE ReloadConfig(p)
  <2>1. CASE cfg # Nil
    <3>1. req'[p] = Configured(p, cfg) /\ cfg \in Conf
      BY <1>0, <1>5, <2>1 DEF ReloadConfig, SharedOK
    <3> QED
      BY <1>0, <1>5, <1>s, <3>1, ConfiguredLocal DEF ReloadConfig, At
  <2>2. CASE cfg = Nil
    <3>1. req'[p] = [r EXCEPT !.pc = "freeze"]
      BY <1>0, <1>5, <2>2 DEF ReloadConfig
    <3>2. req'[p] \in Local /\ req'[p].pc = "freeze" /\ req'[p].back = r.back
          /\ req'[p].serve = r.serve /\ req'[p].slot = r.slot /\ req'[p].out = r.out
      BY <1>0, <3>1 DEF Local, Points
    <3> QED
      BY <1>0, <1>5, <1>s, <3>2 DEF ReloadConfig, LocalOK, Reloaded, At
  <2> QED
    BY <2>1, <2>2
<1>6. CASE Serve(p)
  <2>0. r.pc = "serve" /\ r.serve \in Conf /\ r.slot = Nil /\ r.out = Nil /\ SharedOK'
    BY <1>0, <1>6, <1>s DEF Serve, At, LocalOK
  <2>1. CASE req' = [req EXCEPT ![p].pc = "dispatch", ![p].cfg = req[p].serve]
    <3>1. req'[p] = [r EXCEPT !.pc = "dispatch", !.cfg = r.serve]
      BY <1>0, <2>1
    <3>2. req'[p] \in Local /\ req'[p].pc = "dispatch" /\ req'[p].cfg = r.serve
          /\ req'[p].serve = r.serve /\ req'[p].slot = Nil /\ req'[p].out = Nil
      BY <1>0, <2>0, <3>1 DEF Local, Points, Reloaded
    <3> QED
      BY <2>0, <3>2 DEF LocalOK
  <2>2. CASE req' = [req EXCEPT ![p].pc = "done"]
    <3>1. req'[p] = [r EXCEPT !.pc = "done"] /\ "done" \in Points
      BY <1>0, <2>2 DEF Points
    <3> QED
      BY <1>0, <2>0, <3>1, PointLocal DEF LocalOK, Reloaded
  <2>3. CASE req' = [req EXCEPT ![p].pc = "config", ![p].back = "dispatch"]
    <3>1. req'[p] = [r EXCEPT !.pc = "config", !.back = "dispatch"]
      BY <1>0, <2>3
    <3>2. req'[p] \in Local /\ req'[p].pc = "config"
          /\ req'[p].serve = r.serve /\ req'[p].slot = Nil /\ req'[p].out = Nil
      BY <1>0, <2>0, <3>1 DEF Local, Points
    <3> QED
      BY <2>0, <3>2 DEF LocalOK, Reloaded
  <2> QED
    BY <1>6, <2>1, <2>2, <2>3 DEF Serve
<1>7. CASE Dispatch(p)
  <2>0. r.pc = "dispatch" /\ r.cfg \in Conf /\ r.slot = Nil /\ r.out = Nil /\ SharedOK'
    BY <1>0, <1>7, <1>s DEF Dispatch, At, LocalOK, Reloaded
  <2>1. ASSUME NEW to \in {"done", "redirect"}, req' = [req EXCEPT ![p].pc = to]
        PROVE  LocalOK(req'[p])
    <3>1. req'[p] = [r EXCEPT !.pc = to] /\ to \in Points
      BY <1>0, <2>1 DEF Points, Reloaded
    <3> QED
      BY <1>0, <2>0, <3>1, PointLocal DEF LocalOK, Reloaded
  <2>2. CASE req' = [req EXCEPT ![p].pc = "config", ![p].back = "error"]
    <3>1. req'[p] = [r EXCEPT !.pc = "config", !.back = "error"]
      BY <1>0, <2>2
    <3>2. req'[p] \in Local
      BY <1>0, <3>1 DEF Local, Points
    <3>3. req'[p].pc = "config" /\ req'[p].back = "error"
          /\ req'[p].slot = Nil /\ req'[p].out = Nil
      BY <1>0, <2>0, <3>1 DEF Local
    <3> QED
      BY <2>0, <3>2, <3>3 DEF LocalOK, Reloaded
  <2>3. ASSUME NEW s \in Slots, req' = [req EXCEPT ![p].pc = "lookup", ![p].slot = s]
        PROVE  LocalOK(req'[p])
    <3>1. req'[p] = [r EXCEPT !.pc = "lookup", !.slot = s]
      BY <1>0, <2>3
    <3>2. req'[p] \in Local
      BY <1>0, <3>1 DEF Local, Points, Reloaded
    <3>3. req'[p].pc = "lookup" /\ req'[p].cfg = r.cfg
          /\ req'[p].slot = s /\ req'[p].out = Nil
          /\ req'[p].back = r.back /\ req'[p].serve = r.serve
      BY <1>0, <2>0, <3>1 DEF Local
    <3> QED
      BY <1>0, <2>0, <3>2, <3>3 DEF LocalOK
  <2> QED
    BY <1>7, <2>0, <2>1, <2>2, <2>3 DEF Dispatch
<1>8. CASE LookupHandler(p)
  <2>0. r.pc = "lookup" /\ r.cfg \in Conf /\ r.slot \in Slots
    BY <1>0, <1>8 DEF LookupHandler, At, LocalOK, Reloaded
  <2>1. CASE cache[r.slot] # Nil
    <3>1. req'[p] = [r EXCEPT !.pc = "done", !.out = cache[r.slot]]
      BY <1>0, <1>8, <2>1 DEF LookupHandler
    <3>2. cache[r.slot] \in Entry
      BY <1>0, <2>0, <2>1 DEF SharedOK
    <3>3. req'[p] \in Local /\ req'[p].pc = "done" /\ req'[p].back = r.back
          /\ req'[p].serve = r.serve
      BY <1>0, <3>1, <3>2 DEF Local, Points
    <3> QED
      BY <1>0, <1>8, <1>s, <3>3 DEF LookupHandler, LocalOK, Reloaded
  <2>2. CASE cache[r.slot] = Nil
    <3>1. req'[p] = [r EXCEPT !.pc = "wrap"]
      BY <1>0, <1>8, <2>2 DEF LookupHandler
    <3> QED
      BY <1>0, <1>8, <1>s, <2>0, <3>1 DEF LookupHandler, LocalOK, Local, Points, Reloaded
  <2> QED
    BY <2>1, <2>2
<1>9. CASE ReadMiddleware(p)
  <2>0. r.pc = "wrap" /\ r.cfg \in Conf /\ r.slot \in Slots /\ middleware \in Nat
    BY <1>0, <1>9 DEF ReadMiddleware, At, LocalOK, Reloaded, SharedOK
  <2>1. req'[p] = [r EXCEPT !.pc = "store", !.mw = middleware]
    BY <1>0, <1>9 DEF ReadMiddleware
  <2> QED
    BY <1>0, <1>9, <1>s, <2>0, <2>1 DEF ReadMiddleware, LocalOK, Local, Points, Reloaded
<1>10. CASE StoreHandler(p)
  <2> DEFINE e == [handler |-> r.cfg[FieldOf[r.slot]], mw |-> r.mw]
  <2>0. r.pc = "store" /\ r.cfg \in Conf /\ r.slot \in Slots
    BY <1>0, <1>10 DEF StoreHandler, At, LocalOK, Reloaded
  <2>1. e \in Entry
    <3>1. FieldOf[r.slot] \in Fields
      BY <2>0, SlotsAssumption DEF SlotsAssumption
    <3> QED
      BY <1>0, <2>0, <3>1 DEF Conf, Local, Entry
  <2>2. req'[p] = [r EXCEPT !.pc = "done", !.mw = 0, !.out = e]
    BY <1>0, <1>10 DEF StoreHandler
  <2>5. cache' = [cache EXCEPT ![r.slot] = e] /\ UNCHANGED <<cfg, lazyRedirect>>
    BY <1>0, <1>10 DEF StoreHandler
  <2>3. req'[p] \in Local /\ req'[p].pc = "done" /\ req'[p].back = r.back
        /\ req'[p].serve = r.serve
    <3>1. r \in Local
      BY <1>0
    <3> HIDE DEF e, r
    <3>2. LET t == [r EXCEPT !.pc = "done", !.mw = 0, !.out = e]
          IN  t \in Local /\ t.pc = "done" /\ t.back = r.back /\ t.serve = r.serve
      BY <3>1, <2>1, HandlerLocal
    <3> QED
      BY <3>2, <2>2
  <2>4. SharedOK'
    BY <1>0, <1>u, <2>1, <2>5 DEF SharedOK
  <2> QED
    BY <1>0, <2>3, <2>4 DEF LocalOK, Reloaded
<1>11. CASE LoadSnapshot(p)
  <2>0. r.pc = "redirect" /\ r.cfg \in Conf
    BY <1>0, <1>11 DEF LoadSnapshot, At, LocalOK, Reloaded
  <2>1. CASE redirectMW = Nil \/ redirectMW.mw = 0
    <3>1. req'[p] = Redirected(p, 0)
      BY <1>0, <1>11, <2>1 DEF LoadSnapshot
    <3>0. 0 \in Nat
      OBVIOUS
    <3>2. LocalOK(Redirected(p, 0))
      BY <1>0, <3>0, RedirectedLocal
    <3> QED
      BY <1>11, <1>s, <3>1, <3>2 DEF LoadSnapshot
  <2>2. CASE ~ (redirectMW = Nil \/ redirectMW.mw = 0)
    <3>1. req'[p] = [r EXCEPT !.pc = "cached", !.snap = redirectMW] /\ redirectMW \in Chain
      BY <1>0, <1>11, <2>2 DEF LoadSnapshot, SharedOK
    <3>2. /\ req'[p] \in Local /\ req'[p].pc = "cached" /\ req'[p].snap \in Chain
          /\ req'[p].cfg = r.cfg /\ req'[p].back = r.back /\ req'[p].serve = r.serve
          /\ req'[p].slot = r.slot /\ req'[p].out = r.out
      <4>1. LET t == [r EXCEPT !.pc = "cached", !.snap = redirectMW]
            IN  /\ t \in Local /\ t.pc = "cached" /\ t.snap = redirectMW /\ t.cfg = r.cfg
                /\ t.back = r.back /\ t.serve = r.serve /\ t.slot = r.slot /\ t.out = r.out
        BY <1>0, <3>1, SnapshotLocal
      <4> QED
        BY <3>1, <4>1
    <3> QED
      BY <1>0, <1>11, <1>s, <2>0, <3>2 DEF LoadSnapshot, LocalOK, Reloaded
  <2> QED
    BY <2>1, <2>2
<1>12. CASE LookupRedirect(p)
  <2>0. r.pc = "cached" /\ r.cfg \in Conf /\ r.snap \in Chain
    BY <1>0, <1>12 DEF LookupRedirect, At, LocalOK, Reloaded
  <2>1. CASE req'[p] = Redirected(p, lazyRedirect.mw) /\ lazyRedirect # Nil
    <3>1. lazyRedirect.mw \in Nat
      BY <1>0, <2>1 DEF SharedOK, Chain
    <3>2. LocalOK(Redirected(p, lazyRedirect.mw))
      BY <1>0, <3>1, RedirectedLocal
    <3> QED
      BY <1>12, <1>s, <2>1, <3>1, <3>2 DEF LookupRedirect
  <2>2. CASE req'[p] = [r EXCEPT !.pc = "newer"]
    BY <1>0, <1>12, <1>s, <2>0, <2>2 DEF LookupRedirect, LocalOK, Local, Points, Reloaded
  <2> QED
    BY <1>0, <1>12, <2>1, <2>2 DEF LookupRedirect
<1>13. CASE LoadRedirect(p)
  <2>0. r.pc = "newer" /\ r.cfg \in Conf /\ r.snap \in Chain
    BY <1>0, <1>13 DEF LoadRedirect, At, LocalOK, Reloaded
  <2>1. CASE lazyRedirect # Nil /\ lazyRedirect.gen = r.snap.gen
    <3>1. lazyRedirect.mw \in Nat /\ req'[p] = Redirected(p, lazyRedirect.mw)
      BY <1>0, <1>13, <2>1 DEF SharedOK, Chain, LoadRedirect
    <3>2. LocalOK(Redirected(p, lazyRedirect.mw))
      BY <1>0, <3>1, RedirectedLocal
    <3> QED
      BY <1>13, <1>s, <3>1, <3>2 DEF LoadRedirect
  <2>2. CASE lazyRedirect # Nil /\ lazyRedirect.gen # r.snap.gen /\ lazyRedirect.gen > r.snap.gen
    <3>1. r.snap.mw \in Nat /\ req'[p] = Redirected(p, r.snap.mw)
      BY <1>0, <1>13, <2>0, <2>2 DEF Chain, LoadRedirect
    <3>2. LocalOK(Redirected(p, r.snap.mw))
      BY <1>0, <2>0, <3>1, RedirectedLocal
    <3> QED
      BY <1>13, <1>s, <3>1, <3>2 DEF LoadRedirect
  <2>3. CASE lazyRedirect # Nil =>
                lazyRedirect.gen # r.snap.gen /\ ~ (lazyRedirect.gen > r.snap.gen)
    <3>1. req'[p] = [r EXCEPT !.pc = "swap", !.cur = lazyRedirect]
      BY <1>0, <1>13, <2>3 DEF LoadRedirect
    <3>2. lazyRedirect # Nil => lazyRedirect.gen < r.snap.gen
      BY <1>0, <2>0, <2>3 DEF SharedOK, Chain
    <3>0. r \in Local /\ lazyRedirect \in Chain \cup {Nil} /\ "swap" \in Points
      BY <1>0 DEF Points, Reloaded, SharedOK
    <3>4. req'[p] \in Local
      BY <3>0, <3>1 DEF Local
    <3>3. req'[p].pc = "swap" /\ req'[p].cur = lazyRedirect
          /\ req'[p].snap = r.snap /\ req'[p].cfg = r.cfg /\ req'[p].back = r.back
          /\ req'[p].serve = r.serve /\ req'[p].slot = r.slot /\ req'[p].out = r.out
      BY <3>0, <3>1 DEF Local
    <3> QED
      BY <1>0, <1>13, <1>s, <2>0, <3>2, <3>3, <3>4 DEF LoadRedirect, LocalOK
  <2> QED
    BY <2>1, <2>2, <2>3
<1>14. CASE SwapRedirect(p)
  <2>0. r.pc = "swap" /\ r.cfg \in Conf /\ r.snap \in Chain /\ r.snap.mw \in Nat
    BY <1>0, <1>14 DEF SwapRedirect, At, LocalOK, Reloaded, Chain
  <2>1. CASE lazyRedirect = r.cur
    <3>1. req'[p] = Redirected(p, r.snap.mw) /\ lazyRedirect' = r.snap
          /\ UNCHANGED <<cfg, cache>>
      BY <1>0, <1>14, <2>1 DEF SwapRedirect
    <3>2. LocalOK(Redirected(p, r.snap.mw))
      BY <1>0, <2>0, RedirectedLocal
    <3>3. SharedOK'
      BY <1>0, <1>u, <2>0, <3>1 DEF SharedOK
    <3> QED
      BY <3>1, <3>2, <3>3
  <2>2. CASE lazyRedirect # r.cur
    <3>1. req'[p] = [r EXCEPT !.pc = "newer", !.cur = Nil] /\ lazyRedirect' = lazyRedirect
      BY <1>0, <1>14, <2>2 DEF SwapRedirect
    <3>2. req'[p] \in Local
      <4>1. r \in Local /\ "newer" \in Points
        BY <1>0 DEF LocalOK, Points, Reloaded
      <4> QED
        BY <3>1, <4>1 DEF Local
    <3>3. req'[p].pc = "newer" /\ req'[p].cur = Nil
          /\ req'[p].snap = r.snap /\ req'[p].cfg = r.cfg /\ req'[p].back = r.back
          /\ req'[p].serve = r.serve /\ req'[p].slot = r.slot /\ req'[p].out = r.out
      BY <1>0, <3>1 DEF LocalOK, Local
    <3>4. LocalOK(r) /\ r.slot = Nil /\ r.out = Nil /\ (r.back = "dispatch" => r.serve \in Conf)
      BY <1>0, <2>0 DEF LocalOK
    <3>5. LocalOK(req'[p])
      BY <2>0, <3>2, <3>3, <3>4 DEF LocalOK, Reloaded
    <3> QED
      BY <1>14, <1>s, <3>1, <3>5 DEF SwapRedirect
  <2> QED
    BY <2>1, <2>2
<1>15. CASE Finish(p)
  BY <1>0, <1>15, <1>s, IdleLocal DEF Finish
<1> QED
  BY <1>1, <1>2, <1>3, <1>4, <1>5, <1>6, <1>7, <1>8, <1>9, <1>10, <1>11, <1>12, <1>13, <1>14,
     <1>15 DEF Step

\* The types hold at the start.
LEMMA TypedInit == Init => Typed
<1> SUFFICES ASSUME Init PROVE Typed
  OBVIOUS
<1>1. SharedOK
  BY DEF Init, SharedOK, Conf
<1>2. done \in Done
  BY DEF Init, Done, Conf
<1>3. \A a \in Admin : ProgOK(a)
  BY NilIsNone DEF Init, ProgOK
<1>4. \A p \in Request : LocalOK(req[p])
  BY IdleLocal DEF Init
<1> QED
  BY <1>1, <1>2, <1>3, <1>4, SlotsAssumption DEF Init, Typed, SlotsAssumption

\* Requests keep the types.
LEMMA RequestTyped == ASSUME Typed, NEW p \in Request, Arrive(p) \/ Step(p) PROVE Typed'
<1>1. DOMAIN req = Request /\ \A q \in Request : LocalOK(req[q])
  BY DEF Typed
<1>2. DOMAIN req' = Request /\ \A q \in Request : LocalOK(req'[q])
  BY <1>1, OthersKeep, LocalStep
<1>3. UNCHANGED <<mu, prog, pending, done, overlap>>
  BY <1>1, OthersKeep
<1>4. \A a \in Admin : ProgOK(a)'
  BY <1>3 DEF Typed, ProgOK
<1>5. SharedOK'
  BY LocalStep
<1> QED
  BY <1>2, <1>3, <1>4, <1>5 DEF Typed

\* A goroutine that reconfigures leaves the requests alone.
LEMMA ChangeKeeps ==
    ASSUME NEW a \in Admin, Change(a)
    PROVE  UNCHANGED <<fields, middleware, pre, req, overlap>>
BY DEF Change, ClearConfig, ClearNotFound, ClearRedirect, StoreSnapshot, RangeKeys, DeleteKey,
       Store, shared

\* Stores keep the types.
LEMMA ChangeTyped == ASSUME Typed, NEW a \in Admin, Change(a) PROVE Typed'
<1>0. /\ SharedOK /\ ProgOK(a) /\ DOMAIN prog = Admin /\ pending \in [Admin -> SUBSET Slots]
      /\ mu \in Admin \cup {Nil} /\ done \in Done /\ \A b \in Admin : ProgOK(b)
  BY DEF Typed
<1>k. UNCHANGED <<fields, middleware, pre, req, overlap>>
  BY ChangeKeeps
<1>u. SharedOK' /\ pending' \in [Admin -> SUBSET Slots] /\ mu' \in Admin \cup {Nil}
      /\ done' \in Done /\ DOMAIN prog' = Admin /\ (\A b \in Admin : ProgOK(b)') => Typed'
  BY <1>k DEF Typed
\* A store that no Range makes.
<1>s. ASSUME Store(a), UNCHANGED pending, pending[a] = {}, prog[a] # <<>>, SharedOK'
      PROVE  Typed'
  BY <1>0, <1>u, <1>s, StoreProgs
<1>1. CASE ClearConfig(a)
  <2>1. prog[a] = R1
    BY <1>0, <1>1, StoreOf DEF ClearConfig
  <2>2. pending[a] = {}
    BY <1>0, <2>1, RebuildStores, UseStores DEF ProgOK
  <2>3. prog[a] # <<>> /\ SharedOK'
    BY <1>0, <1>1 DEF ClearConfig, SharedOK, AtStore
  <2> QED
    BY <1>1, <1>s, <2>2, <2>3 DEF ClearConfig
<1>2. CASE ClearNotFound(a)
  <2>1. prog[a] \in {U1, R2}
    BY <1>0, <1>2, StoreOf DEF ClearNotFound
  <2>2. pending[a] = {}
    BY <1>0, <2>1, RebuildStores, UseStores DEF ProgOK
  <2>3. prog[a] # <<>> /\ SharedOK'
    BY <1>0, <1>2 DEF ClearNotFound, SharedOK, AtStore
  <2> QED
    BY <1>2, <1>s, <2>2, <2>3 DEF ClearNotFound
<1>3. CASE ClearRedirect(a)
  <2>1. prog[a] = R3
    BY <1>0, <1>3, StoreOf DEF ClearRedirect
  <2>2. pending[a] = {}
    BY <1>0, <2>1, RebuildStores, UseStores DEF ProgOK
  <2>3. prog[a] # <<>> /\ SharedOK'
    BY <1>0, <1>3 DEF ClearRedirect, SharedOK, AtStore
  <2> QED
    BY <1>3, <1>s, <2>2, <2>3 DEF ClearRedirect
<1>4. CASE StoreSnapshot(a)
  <2>1. prog[a] = U4
    BY <1>0, <1>4, StoreOf DEF StoreSnapshot
  <2>2. pending[a] = {}
    BY <1>0, <2>1, RebuildStores, UseStores DEF ProgOK
  <2>3. prog[a] # <<>> /\ SharedOK'
    BY <1>0, <1>4 DEF StoreSnapshot, SharedOK, AtStore, Chain
  <2> QED
    BY <1>4, <1>s, <2>2, <2>3 DEF StoreSnapshot
<1>5. ASSUME NEW store \in {"notAllowed", "options"}, RangeKeys(a, store) PROVE Typed'
  <2> DEFINE there == {s \in Keys(store) : cache[s] # Nil}
  <2>1. pending[a] = {} /\ prog[a] # <<>> /\ UNCHANGED <<cfg, cache, lazyRedirect, redirectGen, redirectMW>>
    BY <1>5 DEF RangeKeys, AtStore, shared
  <2>2. SharedOK'
    BY <1>0, <1>k, <2>1 DEF SharedOK
  <2>3. PICK more \in SUBSET (Keys(store) \ there) :
           IF there \cup more = {} THEN Store(a) /\ UNCHANGED pending
           ELSE /\ pending' = [pending EXCEPT ![a] = there \cup more]
                /\ UNCHANGED <<mu, prog, done, overlap>>
    BY <1>5 DEF RangeKeys
  <2>4. CASE there \cup more = {}
    BY <1>s, <2>1, <2>2, <2>3, <2>4
  <2>5. CASE there \cup more # {}
    <3>1. pending' = [pending EXCEPT ![a] = there \cup more] /\ UNCHANGED <<mu, prog, done>>
      BY <2>3, <2>5
    <3>2. there \cup more \in SUBSET Keys(store)
      OBVIOUS
    <3>3. /\ store = "notAllowed" => prog[a] \in {U2, R4} /\ Keys(store) = NotAllowed
          /\ store = "options" => prog[a] \in {U3, R5} /\ Keys(store) = Options
      BY <1>0, <1>5, StoreOf DEF RangeKeys, Keys
    <3>4. Keys(store) \in SUBSET Slots
      BY <3>3 DEF Slots
    <3>5. pending' \in [Admin -> SUBSET Slots]
      BY <1>0, <3>1, <3>2, <3>4
    <3>6. pending'[a] = there \cup more /\ \A b \in Admin \ {a} : pending'[b] = pending[b]
      BY <1>0, <3>1
    <3>7. ProgOK(a)'
      BY <1>0, <3>1, <3>2, <3>3, <3>6 DEF ProgOK
    <3>8. \A b \in Admin \ {a} : ProgOK(b)'
      BY <1>0, <3>1, <3>6 DEF ProgOK
    <3> QED
      BY <1>0, <1>u, <2>2, <3>1, <3>5, <3>7, <3>8
  <2> QED
    BY <2>4, <2>5
<1>6. ASSUME NEW s \in Slots, DeleteKey(a, s) PROVE Typed'
  <2>1. /\ s \in pending[a] /\ cache' = [cache EXCEPT ![s] = Nil]
        /\ pending' = [pending EXCEPT ![a] = @ \ {s}]
        /\ UNCHANGED <<cfg, lazyRedirect, redirectGen, redirectMW>>
    BY <1>6 DEF DeleteKey
  <2>2. SharedOK' /\ pending' \in [Admin -> SUBSET Slots]
    BY <1>0, <1>k, <2>1 DEF SharedOK
  <2>3. pending'[a] = pending[a] \ {s} /\ \A b \in Admin \ {a} : pending'[b] = pending[b]
    BY <1>0, <2>1
  <2>4. CASE pending[a] = {s}
    <3>1. Store(a) /\ pending'[a] = {}
      BY <1>6, <2>3, <2>4 DEF DeleteKey
    <3>2. prog[a] \in {U2, U3, R4, R5}
      BY <1>0, <2>1 DEF ProgOK
    <3>3. prog[a] # <<>>
      BY <3>2, StoresDiffer DEF Using, Rebuilding
    <3> QED
      BY <1>u, <2>2, <2>3, <3>1, <3>3, StoreProgs
  <2>5. CASE pending[a] # {s}
    <3>1. UNCHANGED <<mu, prog, done>>
      BY <1>6, <2>5 DEF DeleteKey
    <3>2. \A b \in Admin : ProgOK(b)'
      BY <1>0, <2>1, <2>3, <3>1 DEF ProgOK
    <3> QED
      BY <1>0, <1>u, <2>2, <3>1, <3>2
  <2> QED
    BY <2>4, <2>5
<1> QED
  BY <1>1, <1>2, <1>3, <1>4, <1>5, <1>6 DEF Change

\* Calls of Use and Pre keep the types.
LEMMA UseTyped == ASSUME Typed, NEW a \in Admin, NEW k \in 0..1, Use(a, k) PROVE Typed'
<1>0. /\ SharedOK /\ DOMAIN prog = Admin /\ prog[a] = <<>> /\ mu = Nil /\ done \in Done
      /\ \A b \in Admin : ProgOK(b)
  BY DEF Typed, Use
<1>1. /\ mu' = a /\ middleware' = middleware + k /\ prog' = [prog EXCEPT ![a] = U1]
      /\ done' = [done EXCEPT !.uses = @ + 1]
      /\ UNCHANGED <<fields, cfg, redirectGen, redirectMW, pre, cache, lazyRedirect, pending, req, overlap>>
  BY DEF Use, U1
<1>2. SharedOK'
  BY <1>0, <1>1 DEF SharedOK
<1>3. done' \in Done
  BY <1>0, <1>1 DEF Done
<1>4. DOMAIN prog' = Admin /\ prog'[a] = U1 /\ \A b \in Admin \ {a} : prog'[b] = prog[b]
  BY <1>0, <1>1
<1>5. pending[a] = {} /\ \A b \in Admin : mu # b
  BY <1>0, StoresDiffer, NilIsNone DEF ProgOK, Using, Rebuilding
<1>6. \A b \in Admin : ProgOK(b)'
  <2>1. ProgOK(a)'
    BY <1>1, <1>4, <1>5 DEF ProgOK, Using
  <2>2. \A b \in Admin \ {a} : ProgOK(b)'
    BY <1>0, <1>1, <1>4, <1>5 DEF ProgOK
  <2> QED
    BY <2>1, <2>2
<1> QED
  BY <1>1, <1>2, <1>3, <1>4, <1>6 DEF Typed

\* Calls of Rebuild keep the types.
LEMMA RebuildTyped == ASSUME Typed, NEW a \in Admin, Rebuild(a) PROVE Typed'
<1>0. /\ SharedOK /\ DOMAIN prog = Admin /\ prog[a] = <<>> /\ done \in Done
      /\ \A b \in Admin : ProgOK(b)
  BY DEF Typed, Rebuild
<1>1. /\ prog' = [prog EXCEPT ![a] = R1]
      /\ done' = [done EXCEPT !.rebuilds = @ + 1, !.from[a] = fields]
      /\ UNCHANGED <<shared, mu, pending, req, overlap>>
  BY DEF Rebuild, R1
<1>2. SharedOK'
  BY <1>0, <1>1 DEF SharedOK, shared
<1>3. done' \in Done
  <2>1. done.rebuilds + 1 \in Nat /\ [done.from EXCEPT ![a] = fields] \in [Admin -> Conf]
    BY <1>0 DEF Done, SharedOK
  <2>2. done' = [done EXCEPT !.rebuilds = done.rebuilds + 1,
                             !.from = [done.from EXCEPT ![a] = fields]]
    BY <1>0, <1>1 DEF Done
  <2> QED
    BY <1>0, <2>1, <2>2 DEF Done
<1>4. DOMAIN prog' = Admin /\ prog'[a] = R1 /\ \A b \in Admin \ {a} : prog'[b] = prog[b]
  BY <1>0, <1>1
<1>5. pending[a] = {} /\ mu # a
  BY <1>0, StoresDiffer, NilIsNone DEF ProgOK, Using, Rebuilding
<1>6. \A b \in Admin : ProgOK(b)'
  <2>1. ProgOK(a)'
    BY <1>1, <1>4, <1>5 DEF ProgOK, Rebuilding
  <2>2. \A b \in Admin \ {a} : ProgOK(b)'
    BY <1>0, <1>1, <1>4 DEF ProgOK
  <2> QED
    BY <2>1, <2>2
<1> QED
  BY <1>1, <1>2, <1>3, <1>4, <1>6 DEF Typed

\* Every step keeps the types.
LEMMA TypedStep == Typed /\ [Next]_vars => Typed'
<1> SUFFICES ASSUME Typed, [Next]_vars PROVE Typed'
  OBVIOUS
<1>1. ASSUME NEW f \in Fields, Assign(f) PROVE Typed'
  <2>1. SharedOK' /\ UNCHANGED <<admin, req>>
    BY <1>1 DEF Assign, Typed, SharedOK, Conf
  <2> QED
    BY <2>1 DEF Typed, ProgOK, admin
<1>2. ASSUME NEW a \in Admin, Pre(a) PROVE Typed'
  <2>1. SharedOK' /\ UNCHANGED <<admin, req>>
    BY <1>2 DEF Pre, Typed, SharedOK
  <2> QED
    BY <2>1 DEF Typed, ProgOK, admin
<1>3. CASE UNCHANGED vars
  BY <1>3 DEF vars, Typed, SharedOK, ProgOK
<1> QED
  BY <1>1, <1>2, <1>3, RequestTyped, ChangeTyped, UseTyped, RebuildTyped DEF Next

\* The types hold in every reachable state.
LEMMA AlwaysTyped == Spec => []Typed
BY TypedInit, TypedStep, PTL DEF Spec

\* No nil pointer is dereferenced: whenever ServeHTTP, serveRedirect or a lazily built
\* handler uses the snapshot of the configuration, or a chain of middleware, it has one,
\* whatever Rebuild clears meanwhile (frozenConfigSlow's retry loop).
THEOREM TypesCorrect == Spec => []TypeOK
<1>1. Typed => TypeOK
  BY DEF Typed, SharedOK, TypeOK, LocalOK, At
<1> QED
  BY <1>1, AlwaysTyped, PTL

-----------------------------------------------------------------------------
(* What a step of a request changes of its locals.                         *)

\* What it was promised and what it answers with, its configuration, its chain.
SameAnswer(p) == req'[p].since = req[p].since /\ req'[p].out = req[p].out
SameConf(p) == req'[p].serve = req[p].serve /\ req'[p].cfg = req[p].cfg
SameChain(p) == req'[p].snap = req[p].snap
SameSlot(p) == req'[p].slot = req[p].slot /\ req'[p].mw = req[p].mw

\* config() returns c.
Gets(p, c) ==
    /\ req'[p].pc \in {"serve", "dispatch", "done"}
    /\ SameAnswer(p) /\ SameChain(p) /\ SameSlot(p)
    /\ req'[p].serve = IF req[p].back = "serve" THEN c ELSE req[p].serve
    /\ req'[p].cfg = IF req[p].back = "dispatch" THEN c ELSE req[p].cfg

\* A redirect is answered through n middleware.
Redirects(p, n) ==
    /\ req'[p].pc = "done" /\ req'[p].since = req[p].since /\ SameSlot(p) /\ SameConf(p)
    /\ req'[p].snap = Nil /\ req'[p].out = [handler |-> 0, mw |-> n]

\* What a request starts with.
LEMMA ArriveEffect ==
    ASSUME Typed, NEW p \in Request, Arrive(p)
    PROVE  /\ req'[p].pc = "config"
           /\ req'[p].since = [mw |-> done.mw, fields |-> done.fields]
           /\ req'[p].out = Nil /\ req'[p].serve = Nil /\ req'[p].cfg = Nil
           /\ req'[p].snap = Nil /\ req'[p].slot = Nil /\ req'[p].mw = 0
           /\ UNCHANGED <<cfg, cache, lazyRedirect>>
BY DEF Typed, Arrive, Idle, shared

\* What config and frozenConfigSlow change.
LEMMA ConfigEffects ==
    ASSUME Typed, NEW p \in Request, LoadConfig(p) \/ SwapConfig(p) \/ ReloadConfig(p)
    PROVE  /\ UNCHANGED <<cache, lazyRedirect>> /\ req[p].pc \in {"config", "freeze", "reload"}
           /\ SwapConfig(p) => req[p].pc = "freeze" /\ req[p].left = {}
           /\ ~ SwapConfig(p) => cfg' = cfg
           /\ \/ cfg # Nil /\ cfg' = cfg /\ Gets(p, cfg)
              \/ /\ SwapConfig(p) /\ cfg = Nil
                 /\ cfg' = req[p].cand /\ Gets(p, req[p].cand)
              \/ /\ cfg' = cfg /\ req'[p].pc \in {"freeze", "reload"}
                 /\ SameAnswer(p) /\ SameConf(p) /\ SameChain(p) /\ SameSlot(p)
                 /\ LoadConfig(p) => req'[p].pc = "freeze" /\ req'[p].left = Fields
                 /\ ~ LoadConfig(p) => req'[p].left = req[p].left /\ req'[p].cand = req[p].cand
<1> DEFINE r == req[p]
<1>0. LocalOK(r) /\ r \in Local /\ SharedOK /\ DOMAIN req = Request
  BY DEF Typed, LocalOK
<1>1. UNCHANGED <<cache, lazyRedirect>> /\ r.pc \in {"config", "freeze", "reload"}
      /\ (SwapConfig(p) => r.pc = "freeze" /\ r.left = {})
      /\ (LoadConfig(p) => r.pc = "config")
      /\ (ReloadConfig(p) => r.pc = "reload")
      /\ (~ SwapConfig(p) => cfg' = cfg)
  BY DEF LoadConfig, SwapConfig, ReloadConfig, At, shared
<1>2. ASSUME NEW c \in Conf, req'[p] = Configured(p, c) PROVE Gets(p, c)
  <2>1. LET s == Configured(p, c)
        IN  /\ s.pc \in {"serve", "dispatch", "done"}
            /\ s.since = r.since /\ s.out = r.out /\ s.slot = r.slot /\ s.mw = r.mw
            /\ s.snap = r.snap
            /\ s.serve = IF r.back = "serve" THEN c ELSE r.serve
            /\ s.cfg = IF r.back = "dispatch" THEN c ELSE r.cfg
    BY <1>0, <1>1, ConfiguredLocal
  <2> QED
    BY <1>2, <2>1 DEF Gets, SameAnswer, SameChain, SameSlot
<1>3. CASE cfg # Nil /\ ~ SwapConfig(p)
  <2>1. req'[p] = Configured(p, cfg) /\ cfg \in Conf
    BY <1>0, <1>3 DEF LoadConfig, ReloadConfig, SharedOK
  <2> QED
    BY <1>1, <1>2, <1>3, <2>1
<1>4. CASE cfg = Nil /\ SwapConfig(p)
  <2>1. req'[p] = Configured(p, r.cand) /\ r.cand \in Conf /\ cfg' = r.cand
    BY <1>0, <1>4 DEF SwapConfig, Local
  <2> QED
    BY <1>1, <1>2, <1>4, <2>1
<1>5. CASE cfg = Nil /\ LoadConfig(p)
  <2>1. req'[p] = [r EXCEPT !.pc = "freeze", !.left = Fields]
    BY <1>0, <1>5 DEF LoadConfig
  <2>2. req'[p].pc = "freeze" /\ req'[p].left = Fields
        /\ SameAnswer(p) /\ SameConf(p) /\ SameChain(p) /\ SameSlot(p)
    BY <1>0, <2>1 DEF Local, SameAnswer, SameConf, SameChain, SameSlot
  <2> QED
    BY <1>1, <1>5, <2>2
<1>6. CASE (cfg = Nil /\ ReloadConfig(p)) \/ (cfg # Nil /\ SwapConfig(p))
  <2>1. PICK to \in {"freeze", "reload"} : req'[p] = [r EXCEPT !.pc = to]
    BY <1>0, <1>6 DEF ReloadConfig, SwapConfig
  <2>2. req'[p].pc = to /\ req'[p].left = r.left /\ req'[p].cand = r.cand
        /\ SameAnswer(p) /\ SameConf(p) /\ SameChain(p) /\ SameSlot(p)
    BY <1>0, <2>1 DEF Local, SameAnswer, SameConf, SameChain, SameSlot
  <2>3. cfg' = cfg
    BY <1>6 DEF ReloadConfig, SwapConfig, shared
  <2> QED
    BY <1>1, <1>6, <2>2, <2>3
<1>7. CASE cfg # Nil
  BY <1>3, <1>6, <1>7, Zenon
<1>8. CASE cfg = Nil
  BY <1>4, <1>5, <1>6, <1>8, Zenon
<1> QED
  BY <1>7, <1>8

\* What copying a field into a new snapshot changes.
LEMMA ReadFieldEffect ==
    ASSUME Typed, NEW p \in Request, ReadField(p)
    PROVE  /\ UNCHANGED <<cfg, cache, lazyRedirect>>
           /\ req[p].pc = "freeze" /\ req'[p].pc = "freeze"
           /\ SameAnswer(p) /\ SameConf(p) /\ SameChain(p) /\ SameSlot(p)
           /\ \E f \in Fields : /\ req'[p].left = req[p].left \ {f}
                                /\ req'[p].cand = [req[p].cand EXCEPT ![f] = fields[f]]
<1> DEFINE r == req[p]
<1>0. LocalOK(r) /\ r \in Local /\ DOMAIN req = Request
  BY DEF Typed, LocalOK
<1>1. PICK f \in r.left : req' = [req EXCEPT ![p].cand[f] = fields[f], ![p].left = @ \ {f}]
  BY DEF ReadField
<1>2. f \in Fields /\ r.pc = "freeze" /\ UNCHANGED <<cfg, cache, lazyRedirect>>
  BY <1>0 DEF ReadField, At, Local, shared
<1>3. req'[p] = [r EXCEPT !.cand = [r.cand EXCEPT ![f] = fields[f]], !.left = r.left \ {f}]
  BY <1>0, <1>1 DEF Local
<1>4. /\ req'[p].left = r.left \ {f} /\ req'[p].cand = [r.cand EXCEPT ![f] = fields[f]]
      /\ req'[p].pc = r.pc /\ SameAnswer(p) /\ SameConf(p) /\ SameChain(p) /\ SameSlot(p)
  <2> DEFINE v == [r.cand EXCEPT ![f] = fields[f]]
  <2>1. req'[p] = [r EXCEPT !.cand = v, !.left = r.left \ {f}]
    BY <1>3
  <2> HIDE DEF v
  <2>2. /\ req'[p].left = r.left \ {f} /\ req'[p].cand = v
        /\ req'[p].pc = r.pc /\ SameAnswer(p) /\ SameConf(p) /\ SameChain(p) /\ SameSlot(p)
    BY <1>0, <2>1 DEF Local, SameAnswer, SameConf, SameChain, SameSlot
  <2> QED
    BY <2>2 DEF v
<1> QED
  BY <1>2, <1>4

\* What the steps of ServeHTTP change.
LEMMA ServeEffects ==
    ASSUME Typed, NEW p \in Request, Serve(p) \/ Dispatch(p)
    PROVE  /\ UNCHANGED <<cfg, cache, lazyRedirect>> /\ req[p].pc \in {"serve", "dispatch"}
           /\ req'[p].pc \in {"dispatch", "done", "config", "redirect", "lookup"}
           /\ SameAnswer(p) /\ SameChain(p) /\ req'[p].mw = req[p].mw
           /\ req'[p].slot = req[p].slot \/ req'[p].slot \in Slots
           /\ req'[p].serve = req[p].serve
           /\ \/ req'[p].cfg = req[p].cfg
              \/ req[p].pc = "serve" /\ req'[p].cfg = req[p].serve
<1> DEFINE r == req[p]
<1>0. LocalOK(r) /\ r \in Local /\ DOMAIN req = Request
  BY DEF Typed, LocalOK
<1>1. UNCHANGED <<cfg, cache, lazyRedirect>> /\ r.pc \in {"serve", "dispatch"}
      /\ (Serve(p) => r.pc = "serve")
  BY DEF Serve, Dispatch, At, shared
<1> USE DEF SameAnswer, SameChain
<1>2. CASE Serve(p) /\ req' = [req EXCEPT ![p].pc = "dispatch", ![p].cfg = req[p].serve]
  BY <1>0, <1>1, <1>2 DEF Local
<1>3. ASSUME NEW to \in {"done", "redirect"}, req' = [req EXCEPT ![p].pc = to]
      PROVE  req'[p] = [r EXCEPT !.pc = to]
  BY <1>0, <1>3
<1>4. ASSUME NEW b \in {"dispatch", "error"},
             req' = [req EXCEPT ![p].pc = "config", ![p].back = b]
      PROVE  req'[p] = [r EXCEPT !.pc = "config", !.back = b]
  BY <1>0, <1>4
<1>5. CASE \E to \in {"done", "redirect"} : req'[p] = [r EXCEPT !.pc = to]
  BY <1>0, <1>1, <1>5 DEF Local
<1>6. CASE \E b \in {"dispatch", "error"} : req'[p] = [r EXCEPT !.pc = "config", !.back = b]
  BY <1>0, <1>1, <1>6 DEF Local
<1>7. CASE \E s \in Slots : req' = [req EXCEPT ![p].pc = "lookup", ![p].slot = s]
  BY <1>0, <1>1, <1>7 DEF Local
<1> QED
  BY <1>2, <1>3, <1>4, <1>5, <1>6, <1>7 DEF Serve, Dispatch

\* What building a handler changes.
LEMMA HandlerEffects ==
    ASSUME Typed, NEW p \in Request, LookupHandler(p) \/ ReadMiddleware(p) \/ StoreHandler(p)
    PROVE  LET r == req[p]
               s == req'[p]
           IN  /\ UNCHANGED <<cfg, lazyRedirect>> /\ r.pc \in {"lookup", "wrap", "store"}
               /\ r.slot \in Slots /\ s.slot = r.slot
               /\ s.since = r.since /\ SameConf(p) /\ SameChain(p)
               /\ LookupHandler(p) => cache' = cache /\ s.mw = r.mw
                    /\ \/ s.pc = "wrap" /\ s.out = r.out
                       \/ s.pc = "done" /\ cache[r.slot] # Nil /\ s.out = cache[r.slot]
               /\ ReadMiddleware(p) => cache' = cache /\ mu = Nil
                    /\ s.pc = "store" /\ s.mw = middleware /\ s.out = r.out
               /\ StoreHandler(p) => r.pc = "store" /\ s.pc = "done"
                    /\ s.out = [handler |-> r.cfg[FieldOf[r.slot]], mw |-> r.mw]
                    /\ cache' = [cache EXCEPT ![r.slot] = s.out]
<1> DEFINE r == req[p]
<1>0. LocalOK(r) /\ r \in Local /\ DOMAIN req = Request
  BY DEF Typed, LocalOK
<1>1. UNCHANGED <<cfg, lazyRedirect>> /\ r.pc \in {"lookup", "wrap", "store"} /\ r.slot \in Slots
      /\ (LookupHandler(p) => r.pc = "lookup")
      /\ (ReadMiddleware(p) => r.pc = "wrap")
      /\ (StoreHandler(p) => r.pc = "store")
  BY <1>0 DEF LookupHandler, ReadMiddleware, StoreHandler, At, shared, LocalOK
<1> USE DEF SameConf, SameChain
<1>2. CASE LookupHandler(p)
  <2>1. CASE cache[r.slot] # Nil
    <3> DEFINE e == cache[r.slot]
    <3>1. req'[p] = [r EXCEPT !.pc = "done", !.out = e] /\ cache' = cache
      BY <1>0, <1>2, <2>1 DEF LookupHandler, shared
    <3> HIDE DEF e
    <3>2. req'[p].out = e /\ req'[p].pc = "done" /\ req'[p].since = r.since /\ SameConf(p)
          /\ SameChain(p) /\ req'[p].slot = r.slot /\ req'[p].mw = r.mw
      BY <1>0, <3>1 DEF Local
    <3> QED
      BY <1>1, <1>2, <2>1, <3>1, <3>2 DEF e
  <2>2. CASE cache[r.slot] = Nil
    <3>1. req'[p] = [r EXCEPT !.pc = "wrap"] /\ cache' = cache
      BY <1>0, <1>2, <2>2 DEF LookupHandler, shared
    <3>2. req'[p].out = r.out /\ req'[p].pc = "wrap" /\ req'[p].since = r.since /\ SameConf(p)
          /\ SameChain(p) /\ req'[p].slot = r.slot /\ req'[p].mw = r.mw
      BY <1>0, <3>1 DEF Local
    <3> QED
      BY <1>1, <1>2, <3>1, <3>2
  <2> QED
    BY <2>1, <2>2
<1>3. CASE ReadMiddleware(p)
  <2>1. req'[p] = [r EXCEPT !.pc = "store", !.mw = middleware] /\ cache' = cache /\ mu = Nil
    BY <1>0, <1>3 DEF ReadMiddleware, shared
  <2>2. req'[p].out = r.out /\ req'[p].pc = "store" /\ req'[p].since = r.since /\ SameConf(p)
        /\ SameChain(p) /\ req'[p].slot = r.slot /\ req'[p].mw = middleware
    BY <1>0, <2>1 DEF Local
  <2> QED
    BY <1>1, <1>3, <2>1, <2>2
<1>4. CASE StoreHandler(p)
  <2> DEFINE e == [handler |-> r.cfg[FieldOf[r.slot]], mw |-> r.mw]
  <2>1. req'[p] = [r EXCEPT !.pc = "done", !.mw = 0, !.out = e]
    BY <1>0, <1>4 DEF StoreHandler
  <2>2. cache' = [cache EXCEPT ![r.slot] = e]
    BY <1>4 DEF StoreHandler
  <2> HIDE DEF e
  <2>3. req'[p].out = e /\ req'[p].pc = "done" /\ req'[p].since = r.since /\ SameConf(p)
        /\ SameChain(p) /\ req'[p].slot = r.slot
    BY <1>0, <2>1 DEF Local
  <2> QED
    BY <1>1, <1>4, <2>2, <2>3 DEF e
<1> QED
  BY <1>2, <1>3, <1>4

\* What a redirect changes.
LEMMA RedirectEffects ==
    ASSUME Typed, NEW p \in Request,
           LoadSnapshot(p) \/ LookupRedirect(p) \/ LoadRedirect(p) \/ SwapRedirect(p)
    PROVE  LET r == req[p]
               s == req'[p]
               Chained == {"cached", "newer", "swap"}
           IN  /\ UNCHANGED <<cfg, cache>> /\ r.pc \in {"redirect"} \cup Chained
               /\ r.pc \in Chained => r.snap \in Chain
               /\ \/ /\ r.pc = "redirect" /\ (redirectMW = Nil \/ redirectMW.mw = 0)
                     /\ Redirects(p, 0) /\ lazyRedirect' = lazyRedirect
                  \/ /\ r.pc = "redirect" /\ redirectMW # Nil /\ lazyRedirect' = lazyRedirect
                     /\ s.pc = "cached" /\ s.snap = redirectMW
                     /\ SameAnswer(p) /\ SameConf(p) /\ SameSlot(p)
                  \/ /\ r.pc \in Chained /\ lazyRedirect # Nil /\ lazyRedirect.gen = r.snap.gen
                     /\ Redirects(p, lazyRedirect.mw) /\ lazyRedirect' = lazyRedirect
                  \/ /\ r.pc \in Chained /\ Redirects(p, r.snap.mw)
                     /\ lazyRedirect' \in {lazyRedirect, r.snap}
                  \/ /\ r.pc \in Chained /\ s.pc \in Chained /\ SameChain(p)
                     /\ SameAnswer(p) /\ SameConf(p) /\ SameSlot(p)
                     /\ lazyRedirect' = lazyRedirect
<1> DEFINE r == req[p]
           Chained == {"cached", "newer", "swap"}
<1>0. LocalOK(r) /\ r \in Local /\ SharedOK /\ DOMAIN req = Request
  BY DEF Typed, LocalOK
<1>1. /\ UNCHANGED <<cfg, cache>> /\ r.pc \in {"redirect"} \cup Chained
      /\ r.pc \in Chained => r.snap \in Chain
      /\ LoadSnapshot(p) => r.pc = "redirect"
      /\ LookupRedirect(p) \/ LoadRedirect(p) \/ SwapRedirect(p) => r.pc \in Chained
      /\ ~ SwapRedirect(p) => lazyRedirect' = lazyRedirect
  BY <1>0 DEF LoadSnapshot, LookupRedirect, LoadRedirect, SwapRedirect, At, shared, LocalOK
<1>2. ASSUME NEW n, n \in Nat, req'[p] = Redirected(p, n) PROVE Redirects(p, n)
  <2>1. LET s == Redirected(p, n)
        IN  /\ s.pc = "done" /\ s.out = [handler |-> 0, mw |-> n]
            /\ s.since = r.since /\ s.slot = r.slot /\ s.mw = r.mw
            /\ s.snap = Nil /\ s.serve = r.serve /\ s.cfg = r.cfg
    BY <1>0, <1>2, RedirectedLocal
  <2> QED
    BY <1>2, <2>1 DEF Redirects, SameConf, SameSlot
<1>3. r.pc \in Chained => r.snap.mw \in Nat /\ r.snap.gen \in Nat
  BY <1>1 DEF Chain
<1>4. lazyRedirect # Nil => lazyRedirect.mw \in Nat /\ lazyRedirect.gen \in Nat
  BY <1>0 DEF SharedOK, Chain
<1>5. CASE LoadSnapshot(p)
  <2>1. CASE redirectMW = Nil \/ redirectMW.mw = 0
    <3>1. req'[p] = Redirected(p, 0) /\ 0 \in Nat
      BY <1>0, <1>5, <2>1 DEF LoadSnapshot
    <3>2. Redirects(p, 0)
      BY <1>2, <3>1
    <3> QED
      BY <1>1, <1>5, <2>1, <3>2 DEF LoadSnapshot, LookupRedirect, SwapRedirect, At
  <2>2. CASE ~ (redirectMW = Nil \/ redirectMW.mw = 0)
    <3>1. req'[p] = [r EXCEPT !.pc = "cached", !.snap = redirectMW]
      BY <1>0, <1>5, <2>2 DEF LoadSnapshot
    <3>2. /\ req'[p].pc = "cached" /\ req'[p].snap = redirectMW
          /\ SameAnswer(p) /\ SameConf(p) /\ SameSlot(p)
      BY <1>0, <3>1 DEF Local, SameAnswer, SameConf, SameSlot
    <3>3. lazyRedirect' = lazyRedirect
      BY <1>5 DEF LoadSnapshot, shared
    <3> QED
      BY <1>1, <1>5, <2>2, <3>2, <3>3
  <2> QED
    BY <2>1, <2>2
\* The answers of the others, and their moves.
<1>6. CASE req'[p] = Redirected(p, lazyRedirect.mw) /\ lazyRedirect # Nil
           /\ lazyRedirect.gen = r.snap.gen /\ r.pc \in Chained /\ lazyRedirect' = lazyRedirect
  <2>1. Redirects(p, lazyRedirect.mw)
    BY <1>2, <1>4, <1>6
  <2> QED
    BY <1>1, <1>6, <2>1
<1>7. CASE req'[p] = Redirected(p, r.snap.mw) /\ r.pc \in Chained
           /\ lazyRedirect' \in {lazyRedirect, r.snap}
  <2>1. Redirects(p, r.snap.mw)
    BY <1>2, <1>3, <1>7
  <2> QED
    BY <1>1, <1>7, <2>1
<1>8. CASE /\ r.pc \in Chained /\ lazyRedirect' = lazyRedirect
           /\ \E to \in Chained : \E c : \/ req'[p] = [r EXCEPT !.pc = to]
                                         \/ req'[p] = [r EXCEPT !.pc = to, !.cur = c]
  <2>1. /\ req'[p].pc \in Chained /\ SameChain(p)
        /\ SameAnswer(p) /\ SameConf(p) /\ SameSlot(p)
    <3>1. PICK to \in Chained : \E c : \/ req'[p] = [r EXCEPT !.pc = to]
                                        \/ req'[p] = [r EXCEPT !.pc = to, !.cur = c]
      BY <1>8
    <3>2. CASE req'[p] = [r EXCEPT !.pc = to]
      BY <1>0, <3>2 DEF Local, SameAnswer, SameConf, SameSlot, SameChain
    <3>3. ASSUME NEW c, req'[p] = [r EXCEPT !.pc = to, !.cur = c]
          PROVE  /\ req'[p].pc \in Chained /\ SameChain(p)
                 /\ SameAnswer(p) /\ SameConf(p) /\ SameSlot(p)
      BY <1>0, <3>3 DEF Local, SameAnswer, SameConf, SameSlot, SameChain
    <3> QED
      BY <3>1, <3>2, <3>3
  <2> QED
    BY <1>1, <1>8, <2>1
<1>9. CASE LookupRedirect(p)
  <2>1. CASE lazyRedirect # Nil /\ lazyRedirect.gen = r.snap.gen
    BY <1>0, <1>1, <1>6, <1>9, <2>1 DEF LookupRedirect, shared
  <2>2. CASE ~ (lazyRedirect # Nil /\ lazyRedirect.gen = r.snap.gen)
    <3>1. req'[p] = [r EXCEPT !.pc = "newer"] /\ lazyRedirect' = lazyRedirect
      BY <1>0, <1>9, <2>2 DEF LookupRedirect, shared
    <3> QED
      BY <1>1, <1>8, <1>9, <3>1
  <2> QED
    BY <2>1, <2>2
<1>10. CASE LoadRedirect(p)
  <2>1. CASE lazyRedirect # Nil /\ lazyRedirect.gen = r.snap.gen
    BY <1>0, <1>1, <1>6, <1>10, <2>1 DEF LoadRedirect, shared
  <2>2. CASE /\ ~ (lazyRedirect # Nil /\ lazyRedirect.gen = r.snap.gen)
             /\ lazyRedirect # Nil /\ lazyRedirect.gen > r.snap.gen
    BY <1>0, <1>1, <1>7, <1>10, <2>2 DEF LoadRedirect, shared
  <2>3. CASE /\ ~ (lazyRedirect # Nil /\ lazyRedirect.gen = r.snap.gen)
             /\ ~ (lazyRedirect # Nil /\ lazyRedirect.gen > r.snap.gen)
    BY <1>0, <1>1, <1>8, <1>10, <2>3 DEF LoadRedirect, shared
  <2> QED
    BY <2>1, <2>2, <2>3
<1>11. CASE SwapRedirect(p)
  <2>1. CASE lazyRedirect = r.cur
    BY <1>0, <1>1, <1>7, <1>11, <2>1 DEF SwapRedirect
  <2>2. CASE lazyRedirect # r.cur
    BY <1>0, <1>1, <1>8, <1>11, <2>2 DEF SwapRedirect
  <2> QED
    BY <2>1, <2>2
<1> QED
  BY <1>5, <1>9, <1>10, <1>11

\* A request that is served leaves nothing behind.
LEMMA FinishEffect ==
    ASSUME Typed, NEW p \in Request, Finish(p)
    PROVE  req'[p] = Idle /\ UNCHANGED <<cfg, cache, lazyRedirect>>
BY DEF Typed, Finish, shared

-----------------------------------------------------------------------------
(* The redirect handler.                                                   *)

\* The cached redirect handler is replaced only by one of a newer generation, or
\* dropped (lazyRedirect's compare-and-swap loop).
THEOREM RedirectsNeverRegress == Spec => GenerationsGrow
<1> DEFINE A == lazyRedirect # Nil /\ lazyRedirect' # Nil /\ lazyRedirect' # lazyRedirect
                => lazyRedirect'.gen > lazyRedirect.gen
<1>1. ASSUME Typed, [Next]_vars PROVE A
  <2>1. ASSUME NEW p \in Request, Arrive(p) \/ Step(p) PROVE A
    <3>1. CASE SwapRedirect(p)
      <4>1. LocalOK(req[p]) /\ SharedOK
        BY <1>1 DEF Typed
      <4>2. req[p].pc = "swap" /\ req[p].snap \in Chain
        BY <3>1, <4>1 DEF SwapRedirect, At, LocalOK
      <4>3. \/ lazyRedirect' = lazyRedirect
            \/ lazyRedirect' = req[p].snap /\ lazyRedirect = req[p].cur
        BY <3>1 DEF SwapRedirect
      <4> QED
        BY <4>1, <4>2, <4>3 DEF LocalOK, SharedOK, Chain
    <3>2. CASE ~ SwapRedirect(p)
      BY <2>1, <3>2 DEF Step, Arrive, LoadConfig, ReadField, SwapConfig, ReloadConfig, Serve,
         Dispatch, LookupHandler, ReadMiddleware, StoreHandler, LoadSnapshot, LookupRedirect,
         LoadRedirect, Finish, shared
    <3> QED
      BY <3>1, <3>2
  <2>2. ASSUME NEW a \in Admin, Change(a) PROVE A
    BY <2>2 DEF Change, ClearConfig, ClearNotFound, ClearRedirect, StoreSnapshot, RangeKeys,
       DeleteKey, shared
  <2>3. ASSUME NEW a \in Admin, (\E k \in 0..1 : Use(a, k)) \/ Pre(a) \/ Rebuild(a) PROVE A
    BY <2>3 DEF Use, Pre, Rebuild, shared
  <2>4. ASSUME NEW f \in Fields, Assign(f) PROVE A
    BY <2>4 DEF Assign
  <2>5. CASE UNCHANGED vars
    BY <2>5 DEF vars
  <2> QED
    BY <1>1, <2>1, <2>2, <2>3, <2>4, <2>5 DEF Next
<1>2. Typed /\ [Next]_vars => [A]_vars
  BY <1>1
<1>3. GenerationsGrow <=> [][A]_vars
  BY DEF GenerationsGrow
<1> HIDE DEF A
<1> QED
  BY <1>2, <1>3, AlwaysTyped, PTL DEF Spec

-----------------------------------------------------------------------------
(* Redirects are answered through a chain of every middleware.             *)

\* What is around are chains.
LEMMA AroundChain == Typed => Around \subseteq Chain
BY DEF Typed, SharedOK, LocalOK, Local, Around

\* A request holds a chain that is around already.
LEMMA ChainsMove ==
    ASSUME Typed, NEW p \in Request, Arrive(p) \/ Step(p)
    PROVE  /\ lazyRedirect' = lazyRedirect \/ lazyRedirect' = req[p].snap
           /\ req'[p].snap \in {Nil, req[p].snap, redirectMW}
<1> USE DEF SameChain, Gets, Redirects
<1>1. CASE Arrive(p) \/ ReadField(p)
  BY <1>1, ArriveEffect, ReadFieldEffect
<1>2. CASE LoadConfig(p) \/ SwapConfig(p) \/ ReloadConfig(p)
  BY <1>2, ConfigEffects
<1>3. CASE Serve(p) \/ Dispatch(p)
  BY <1>3, ServeEffects
<1>4. CASE LookupHandler(p) \/ ReadMiddleware(p) \/ StoreHandler(p)
  BY <1>4, HandlerEffects
<1>5. CASE LoadSnapshot(p) \/ LookupRedirect(p) \/ LoadRedirect(p) \/ SwapRedirect(p)
  BY <1>5, RedirectEffects
<1>6. CASE Finish(p)
  BY <1>6, FinishEffect DEF Idle
<1> QED
  BY <1>1, <1>2, <1>3, <1>4, <1>5, <1>6 DEF Step

\* A request makes no chain of its own.
LEMMA RequestChains ==
    ASSUME Typed, Chains, NEW p \in Request, Arrive(p) \/ Step(p) PROVE Chains'
<1>1. UNCHANGED <<redirectMW, redirectGen, middleware, done>>
      /\ \A q \in Request \ {p} : req'[q] = req[q]
  BY OthersKeep DEF Typed
<1>2. Around' \subseteq Around
  BY <1>1, ChainsMove DEF Around
<1> QED
  BY <1>1, <1>2 DEF Chains

\* A redirect runs what was registered when the request arrived.
LEMMA RequestSince ==
    ASSUME Typed, Chains, NEW p \in Request, SinceOK(p), Arrive(p) \/ Step(p)
    PROVE  SinceOK(p)'
<1> DEFINE r == req[p]
           s == req'[p]
<1>0. done' = done /\ LocalOK(r) /\ r \in Local /\ done.mw \in Nat /\ SharedOK
  BY OthersKeep DEF Typed, LocalOK, Done
<1>1. r.since.mw \in Nat
  BY <1>0 DEF Local
<1> USE DEF SinceOK, At, Redirecting, SameAnswer, SameSlot, Gets, Redirects
<1>2. CASE Arrive(p)
  BY <1>0, <1>2, ArriveEffect
<1>3. CASE LoadConfig(p) \/ SwapConfig(p) \/ ReloadConfig(p)
  <2>1. s.pc \in {"serve", "dispatch", "done", "freeze", "reload"} /\ r.pc # "idle"
        /\ s.since = r.since /\ s.out = r.out /\ s.slot = r.slot
    BY <1>3, ConfigEffects
  <2> QED
    BY <1>0, <2>1
<1>4. CASE ReadField(p)
  BY <1>0, <1>4, ReadFieldEffect
<1>5. CASE Serve(p) \/ Dispatch(p)
  <2>1. /\ s.pc \in {"dispatch", "done", "config", "redirect", "lookup"} /\ r.pc # "idle"
        /\ s.since = r.since /\ s.out = r.out
        /\ s.slot = r.slot \/ s.slot \in Slots
    BY <1>5, ServeEffects
  <2>2. s.slot = Nil => r.slot = Nil
    BY <2>1, NilIsNone
  <2> QED
    BY <1>0, <2>1, <2>2
<1>6. CASE LookupHandler(p) \/ ReadMiddleware(p) \/ StoreHandler(p)
  <2>1. s.pc \in {"wrap", "done", "store"} /\ r.pc # "idle" /\ s.slot \in Slots
        /\ s.since = r.since
    BY <1>6, HandlerEffects
  <2>2. s.slot # Nil
    BY <2>1, NilIsNone
  <2> QED
    BY <1>0, <2>1, <2>2
<1>7. CASE LoadSnapshot(p) \/ LookupRedirect(p) \/ LoadRedirect(p) \/ SwapRedirect(p)
  <2> DEFINE Chained == {"cached", "newer", "swap"}
  <2>1. r.pc # "idle" /\ (r.pc \in Chained => r.snap \in Chain)
    BY <1>7, RedirectEffects
  <2>2. r.since.mw <= done.mw
    BY <2>1
  <2>3. CASE (redirectMW = Nil \/ redirectMW.mw = 0) /\ Redirects(p, 0)
    <3>1. done.mw = 0
      BY <1>0, <2>3 DEF Chains
    <3> QED
      BY <1>0, <1>1, <2>2, <2>3, <3>1
  <2>4. CASE redirectMW # Nil /\ s.pc = "cached" /\ s.snap = redirectMW
             /\ SameAnswer(p) /\ SameSlot(p)
    <3>1. redirectMW.mw \in Nat /\ redirectMW.mw >= r.since.mw
      BY <1>0, <1>1, <2>2, <2>4 DEF Chains, SharedOK, Chain
    <3> QED
      BY <1>0, <2>1, <2>2, <2>4, <3>1
  <2>5. CASE /\ r.pc \in Chained /\ lazyRedirect # Nil /\ lazyRedirect.gen = r.snap.gen
             /\ Redirects(p, lazyRedirect.mw)
    <3>1. lazyRedirect \in Around /\ r.snap \in Around
      BY <2>1, <2>5, NilIsNone DEF Around
    <3>2. lazyRedirect.mw = r.snap.mw
      BY <2>5, <3>1 DEF Chains
    <3> QED
      BY <1>0, <2>2, <2>5, <3>2
  <2>6. CASE r.pc \in Chained /\ Redirects(p, r.snap.mw)
    BY <1>0, <2>2, <2>6
  <2>7. CASE r.pc \in Chained /\ s.pc \in Chained /\ s.snap = r.snap
             /\ SameAnswer(p) /\ SameSlot(p)
    BY <1>0, <2>2, <2>7
  <2> QED
    BY <1>7, <2>3, <2>4, <2>5, <2>6, <2>7, RedirectEffects DEF SameChain
<1>8. CASE Finish(p)
  BY <1>8, FinishEffect DEF Idle
<1> QED
  BY <1>2, <1>3, <1>4, <1>5, <1>6, <1>7, <1>8 DEF Step

\* What the calls that reconfigure do to the chains: only the last store of Use, with mu
\* still held, publishes one, of every middleware registered so far.
LEMMA ChangeEffects ==
    ASSUME Typed, NEW a \in Admin, Change(a)
    PROVE  /\ lazyRedirect' \in {lazyRedirect, Nil}
           /\ \/ /\ UNCHANGED <<redirectMW, redirectGen>> /\ done'.mw = done.mw
              \/ /\ prog[a] = U4 /\ redirectGen' = redirectGen + 1 /\ mu' = Nil
                 /\ redirectMW' = [gen |-> redirectGen + 1, mw |-> middleware]
                 /\ lazyRedirect' = lazyRedirect
                 /\ done' = [done EXCEPT !.mw = middleware]
<1>0. ProgOK(a) /\ done \in Done /\ prog[a] \in Using \cup Rebuilding \cup {<<>>}
  BY DEF Typed, ProgOK
<1>1. ASSUME Store(a), prog[a] \in {U1, U2, U3, R1, R2, R3, R4, R5} PROVE done'.mw = done.mw
  <2>1. prog[a] # <<>>
    BY <1>1, StoresDiffer DEF Using, Rebuilding
  <2>2. CASE prog[a] = R5
    <3>1. done' = [done EXCEPT !.fields = Newest(done.fields, done.from[a])]
      BY <1>0, <1>1, <2>1, <2>2, StoreMoves
    <3> QED
      BY <1>0, <3>1 DEF Done
  <2>3. CASE prog[a] # R5
    BY <1>0, <1>1, <2>1, <2>3, StoreMoves
  <2> QED
    BY <2>2, <2>3
<1>2. CASE ClearConfig(a) \/ ClearNotFound(a) \/ ClearRedirect(a)
  <2>1. prog[a] \in {U1, R1, R2, R3} /\ Store(a)
    BY <1>0, <1>2, StoreOf DEF ClearConfig, ClearNotFound, ClearRedirect
  <2> QED
    BY <1>1, <1>2, <2>1 DEF ClearConfig, ClearNotFound, ClearRedirect
<1>3. CASE StoreSnapshot(a)
  <2>1. prog[a] = U4 /\ Store(a) /\ prog[a] # <<>>
    BY <1>0, <1>3, StoreOf DEF StoreSnapshot, AtStore
  <2>2. mu' = Nil /\ done' = [done EXCEPT !.mw = middleware]
    BY <1>0, <2>1, StoreMoves
  <2> QED
    BY <1>3, <2>1, <2>2 DEF StoreSnapshot
<1>4. CASE \E store \in {"notAllowed", "options"} : RangeKeys(a, store)
  <2>1. prog[a] \in {U2, U3, R4, R5}
    BY <1>0, <1>4, StoreOf DEF RangeKeys
  <2>2. Store(a) \/ UNCHANGED done
    BY <1>4 DEF RangeKeys
  <2> QED
    BY <1>1, <1>4, <2>1, <2>2 DEF RangeKeys, shared
<1>5. CASE \E s \in Slots : DeleteKey(a, s)
  <2>1. prog[a] \in {U2, U3, R4, R5}
    BY <1>0, <1>5 DEF DeleteKey, ProgOK
  <2>2. Store(a) \/ UNCHANGED done
    BY <1>5 DEF DeleteKey
  <2> QED
    BY <1>1, <1>5, <2>1, <2>2 DEF DeleteKey
<1> QED
  BY <1>2, <1>3, <1>4, <1>5 DEF Change

\* Use publishes a chain of a new generation.
LEMMA ChangeChains ==
    ASSUME Typed, Chains, RedirectSince, NEW a \in Admin, Change(a)
    PROVE  Chains' /\ RedirectSince'
<1>0. /\ UNCHANGED <<middleware, req>> /\ Around \subseteq Chain /\ middleware \in Nat
      /\ redirectGen \in Nat /\ done \in Done /\ done.mw \in Nat
      /\ lazyRedirect' \in {lazyRedirect, Nil}
      /\ \A p \in Request : LocalOK(req[p])
  BY ChangeKeeps, ChangeEffects, AroundChain DEF Typed, SharedOK, Done
<1>1. CASE UNCHANGED <<redirectMW, redirectGen>> /\ done'.mw = done.mw
  <2>1. Around' \subseteq Around
    BY <1>0, <1>1 DEF Around
  <2> QED
    BY <1>0, <1>1, <2>1 DEF Chains, RedirectSince, SinceOK, At, Redirecting
<1>2. CASE /\ redirectGen' = redirectGen + 1
           /\ redirectMW' = [gen |-> redirectGen + 1, mw |-> middleware]
           /\ lazyRedirect' = lazyRedirect /\ done' = [done EXCEPT !.mw = middleware]
  <2>1. done'.mw = middleware /\ done.mw <= middleware
    BY <1>0, <1>2 DEF Chains, Done
  <2>2. Around' \subseteq Around \cup {redirectMW'}
    BY <1>0, <1>2 DEF Around
  <2>3. redirectMW'.gen = redirectGen + 1 /\ redirectMW'.mw = middleware /\ redirectMW' # Nil
    <3>1. redirectMW' \in Chain
      BY <1>0, <1>2 DEF Chain
    <3> QED
      BY <1>2, <3>1, NilIsNone
  <2>4. \A c \in Around : c.gen \in Nat /\ c.gen < redirectMW'.gen
    BY <1>0, <2>3 DEF Chains, Chain
  <2>5. Chains'
    <3>1. \A c, d \in Around' : c.gen = d.gen => c.mw = d.mw
      BY <2>2, <2>4 DEF Chains
    <3>2. \A c \in Around' : redirectMW' # Nil /\ c.gen <= redirectMW'.gen
      BY <1>0, <2>2, <2>3, <2>4
    <3> QED
      BY <1>0, <1>2, <2>1, <2>3, <3>1, <3>2 DEF Chains
  <2>6. RedirectSince'
    <3> SUFFICES ASSUME NEW p \in Request PROVE SinceOK(p)'
      BY DEF RedirectSince
    <3>1. SinceOK(p) /\ req[p].since.mw \in Nat
      BY <1>0 DEF RedirectSince, LocalOK, Local
    <3> QED
      BY <1>0, <2>1, <3>1 DEF SinceOK, At, Redirecting
  <2> QED
    BY <2>5, <2>6
<1> QED
  BY <1>1, <1>2, ChangeEffects

\* Every step keeps the chains in order and the redirects recent.
LEMMA RedirectStep ==
    Typed /\ Chains /\ RedirectSince /\ [Next]_vars => Chains' /\ RedirectSince'
<1> SUFFICES ASSUME Typed, Chains, RedirectSince, [Next]_vars PROVE Chains' /\ RedirectSince'
  OBVIOUS
<1>0. middleware \in Nat /\ done \in Done /\ done.mw \in Nat
      /\ (redirectMW # Nil => redirectMW.mw \in Nat)
  BY DEF Typed, SharedOK, Done, Chain
<1>1. ASSUME NEW p \in Request, Arrive(p) \/ Step(p) PROVE Chains' /\ RedirectSince'
  <2>1. done' = done /\ \A q \in Request \ {p} : req'[q] = req[q]
    BY <1>1, OthersKeep DEF Typed
  <2>2. \A q \in Request \ {p} : SinceOK(q)'
    BY <2>1 DEF RedirectSince, SinceOK, At, Redirecting
  <2>3. SinceOK(p)'
    BY <1>1, RequestSince DEF RedirectSince
  <2> QED
    BY <1>1, <2>2, <2>3, RequestChains DEF RedirectSince
\* The others touch no chain; Use adds to the middleware.
<1>2. ASSUME UNCHANGED <<redirectMW, redirectGen, lazyRedirect, req>>, done'.mw = done.mw,
             middleware' = middleware \/ middleware' = middleware + 0
                \/ middleware' = middleware + 1
      PROVE  Chains' /\ RedirectSince'
  <2>1. Around' = Around /\ middleware <= middleware'
    BY <1>0, <1>2 DEF Around
  <2>2. done.mw <= middleware' /\ (redirectMW # Nil => redirectMW.mw <= middleware')
    BY <1>0, <1>2, <2>1 DEF Chains
  <2>3. Chains'
    BY <1>2, <2>1, <2>2 DEF Chains
  <2> QED
    BY <1>2, <2>3 DEF RedirectSince, SinceOK, At, Redirecting
<1>3. ASSUME NEW a \in Admin, NEW k \in 0..1, Use(a, k) PROVE Chains' /\ RedirectSince'
  <2>1. done'.mw = done.mw
    BY <1>0, <1>3 DEF Use, Done
  <2> QED
    BY <1>2, <1>3, <2>1 DEF Use
<1>4. ASSUME NEW a \in Admin, Rebuild(a) PROVE Chains' /\ RedirectSince'
  <2>1. done'.mw = done.mw
    BY <1>0, <1>4 DEF Rebuild, Done
  <2> QED
    BY <1>2, <1>4, <2>1 DEF Rebuild, shared
<1>5. ASSUME NEW a \in Admin, Pre(a) PROVE Chains' /\ RedirectSince'
  BY <1>2, <1>5 DEF Pre, admin
<1>6. ASSUME NEW f \in Fields, Assign(f) PROVE Chains' /\ RedirectSince'
  BY <1>2, <1>6 DEF Assign, admin
<1>7. CASE UNCHANGED vars
  BY <1>2, <1>7 DEF vars
<1> QED
  BY <1>1, <1>3, <1>4, <1>5, <1>6, <1>7, ChangeChains DEF Next

\* There is no chain at the start.
LEMMA RedirectInit == Init => Chains /\ RedirectSince
<1> SUFFICES ASSUME Init PROVE Chains /\ RedirectSince
  OBVIOUS
<1>1. Around = {}
  BY DEF Init, Around, Idle
<1>2. Chains
  BY <1>1 DEF Init, Chains
<1>3. RedirectSince
  BY DEF Init, RedirectSince, SinceOK, At, Redirecting, Idle
<1> QED
  BY <1>2, <1>3

\* A redirect runs every middleware that a Use which returned before the request arrived
\* had registered, whichever goroutine built the chain it is answered with.
THEOREM RedirectsLiveBound == Spec => []RedirectCurrent
<1>1. Typed /\ Chains /\ RedirectSince => RedirectCurrent
  <2> SUFFICES ASSUME Typed, Chains, RedirectSince PROVE RedirectCurrent
    OBVIOUS
  <2>1. RedirectExact
    BY DEF Chains, Around, RedirectExact
  <2> QED
    BY <2>1 DEF RedirectCurrent, RedirectSince, SinceOK
<1> QED
  BY <1>1, AlwaysTyped, RedirectInit, RedirectStep, PTL DEF Spec

-----------------------------------------------------------------------------
(* A request is configured by values no older than the last Rebuild.       *)

\* AtLeast is reflexive.
LEMMA AtLeastItself == ASSUME NEW v \in Conf PROVE AtLeast(v, v)
BY DEF AtLeast, Conf

\* AtLeast is transitive.
LEMMA AtLeastBoth ==
    ASSUME NEW u \in Conf, NEW v \in Conf, NEW w \in Conf, AtLeast(u, v), AtLeast(v, w)
    PROVE  AtLeast(u, w)
BY DEF AtLeast, Conf

\* The newest of two configurations is as new as either.
LEMMA NewestLeast ==
    ASSUME NEW u \in Conf, NEW v \in Conf, NEW w \in Conf
    PROVE  /\ AtLeast(u, v) /\ AtLeast(u, w) => AtLeast(u, Newest(v, w))
           /\ AtLeast(Newest(v, w), v)
BY DEF AtLeast, Newest, Conf

\* A request copies and publishes only fields that are current.
LEMMA RequestCopies ==
    ASSUME Typed, FieldsSince, NEW p \in Request, CopySince(p), Arrive(p) \/ Step(p)
    PROVE  CopySince(p)' /\ FieldsSince'
<1> DEFINE r == req[p]
           s == req'[p]
<1>0. /\ UNCHANGED <<fields, prog, done>> /\ LocalOK(r) /\ r \in Local /\ SharedOK
      /\ done.fields \in Conf /\ done.from \in [Admin -> Conf] /\ fields \in Conf
      /\ r.since.fields \in Conf /\ r.cand \in Conf /\ (cfg # Nil => cfg \in Conf)
  BY OthersKeep DEF Typed, LocalOK, Done, SharedOK, Local
<1>1. cfg' = cfg => FieldsSince'
  BY <1>0 DEF FieldsSince
<1> USE DEF CopySince, At, SameAnswer, SameConf, Gets, Redirects
<1>2. CASE Arrive(p)
  <2>1. s.pc = "config" /\ s.since.fields = done.fields /\ s.serve = Nil /\ s.cfg = Nil
        /\ cfg' = cfg
    BY <1>2, ArriveEffect
  <2> QED
    BY <1>0, <1>1, <2>1, AtLeastItself
<1>3. CASE LoadConfig(p) \/ SwapConfig(p) \/ ReloadConfig(p)
  <2>1. AtLeast(done.fields, r.since.fields)
    BY <1>3, ConfigEffects
  <2>2. ASSUME NEW c \in Conf, AtLeast(c, done.fields), Gets(p, c) PROVE CopySince(p)'
    <3>1. AtLeast(c, r.since.fields)
      BY <1>0, <2>1, <2>2, AtLeastBoth
    <3>2. s.serve \in {c, r.serve} /\ s.cfg \in {c, r.cfg} /\ s.since = r.since
          /\ s.pc \notin {"freeze", "reload"}
      BY <2>2
    <3> QED
      BY <1>0, <2>1, <3>1, <3>2
  <2>3. CASE cfg # Nil /\ cfg' = cfg /\ Gets(p, cfg)
    <3>1. cfg \in Conf /\ AtLeast(cfg, done.fields)
      BY <1>0, <2>3 DEF FieldsSince
    <3> QED
      BY <1>1, <2>2, <2>3, <3>1
  <2>4. CASE SwapConfig(p) /\ cfg' = r.cand /\ Gets(p, r.cand)
    <3>1. \A f \in Fields : r.cand[f] = fields[f]
      BY <2>4, ConfigEffects
    <3>2. AtLeast(r.cand, done.fields) /\
          \A a \in Admin : prog[a] \in Rebuilding => AtLeast(r.cand, done.from[a])
      BY <3>1 DEF FieldsSince, AtLeast
    <3>3. FieldsSince'
      BY <1>0, <2>4, <3>2 DEF FieldsSince
    <3>4. CopySince(p)'
      BY <1>0, <2>2, <2>4, <3>2
    <3> QED
      BY <3>3, <3>4
  <2>5. CASE /\ cfg' = cfg /\ s.pc \in {"freeze", "reload"} /\ SameAnswer(p) /\ SameConf(p)
             /\ LoadConfig(p) => s.pc = "freeze" /\ s.left = Fields
             /\ ~ LoadConfig(p) => s.left = r.left /\ s.cand = r.cand
    <3>1. CASE LoadConfig(p)
      BY <1>0, <1>1, <2>1, <2>5, <3>1
    <3>2. CASE ~ LoadConfig(p)
      <4>1. r.pc \in {"freeze", "reload"} /\ r.left = {}
        BY <1>3, <3>2, ConfigEffects DEF SwapConfig, ReloadConfig
      <4> QED
        BY <1>0, <1>1, <2>1, <2>5, <3>2, <4>1
    <3> QED
      BY <3>1, <3>2
  <2> QED
    BY <1>3, <2>3, <2>4, <2>5, ConfigEffects
<1>4. CASE ReadField(p)
  <2>1. PICK f \in Fields : /\ s.left = r.left \ {f}
                            /\ s.cand = [r.cand EXCEPT ![f] = fields[f]]
    BY <1>4, ReadFieldEffect
  <2>2. /\ r.pc = "freeze" /\ s.pc = "freeze" /\ SameAnswer(p) /\ SameConf(p) /\ cfg' = cfg
    BY <1>4, ReadFieldEffect
  <2>3. \A g \in Fields \ s.left : s.cand[g] = fields[g]
    BY <1>0, <2>1, <2>2 DEF Conf
  <2> QED
    BY <1>0, <1>1, <2>2, <2>3
<1>5. CASE Serve(p) \/ Dispatch(p)
  <2>1. /\ s.pc \notin {"freeze", "reload"} /\ r.pc # "idle" /\ s.since = r.since
        /\ s.serve = r.serve /\ s.cfg \in {r.cfg, r.serve} /\ cfg' = cfg
    BY <1>5, ServeEffects
  <2> QED
    BY <1>0, <1>1, <2>1
<1>6. CASE \/ LookupHandler(p) \/ ReadMiddleware(p) \/ StoreHandler(p)
           \/ LoadSnapshot(p) \/ LookupRedirect(p) \/ LoadRedirect(p) \/ SwapRedirect(p)
  <2>1. /\ s.pc \notin {"freeze", "reload"} /\ r.pc # "idle" /\ s.since = r.since
        /\ SameConf(p) /\ cfg' = cfg
    <3>1. CASE LookupHandler(p) \/ ReadMiddleware(p) \/ StoreHandler(p)
      BY <3>1, HandlerEffects
    <3>2. CASE LoadSnapshot(p) \/ LookupRedirect(p) \/ LoadRedirect(p) \/ SwapRedirect(p)
      BY <3>2, RedirectEffects
    <3> QED
      BY <1>6, <3>1, <3>2
  <2> QED
    BY <1>0, <1>1, <2>1
<1>7. CASE Finish(p)
  BY <1>1, <1>7, FinishEffect DEF Idle
<1> QED
  BY <1>2, <1>3, <1>4, <1>5, <1>6, <1>7 DEF Step

\* A goroutine that reconfigures either goes on with a Range or makes its next store;
\* the snapshot is cleared by the first store of Rebuild and by nothing else.
LEMMA ChangeMoves ==
    ASSUME Typed, NEW a \in Admin, Change(a)
    PROVE  /\ prog[a] \in Using \cup Rebuilding
           /\ IF prog[a] = R1 THEN cfg' = Nil ELSE cfg' = cfg
           /\ Store(a) \/ (UNCHANGED <<mu, prog, done>> /\ prog[a] # R1)
<1>0. ProgOK(a) /\ prog[a] \in Using \cup Rebuilding \cup {<<>>}
  BY DEF Typed, ProgOK
<1>1. prog[a] # <<>>
  BY <1>0, StoresDiffer
     DEF Change, ClearConfig, ClearNotFound, ClearRedirect, StoreSnapshot, RangeKeys, DeleteKey,
         AtStore, ProgOK, Using, Rebuilding
<1>2. CASE ClearConfig(a)
  BY <1>0, <1>1, <1>2, StoreOf DEF ClearConfig
<1>3. CASE ~ ClearConfig(a)
  <2>1. prog[a] # R1
    <3>1. CASE ClearNotFound(a) \/ ClearRedirect(a) \/ StoreSnapshot(a)
               \/ \E store \in {"notAllowed", "options"} : RangeKeys(a, store)
      <4>1. Head(prog[a]) # "cfg"
        BY <3>1 DEF ClearNotFound, ClearRedirect, StoreSnapshot, RangeKeys, AtStore
      <4> QED
        BY <4>1, RebuildStores
    <3>2. CASE \E s \in Slots : DeleteKey(a, s)
      <4>1. prog[a] \in {U2, U3, R4, R5}
        BY <1>0, <3>2 DEF DeleteKey, ProgOK
      <4>2. Head(prog[a]) # "cfg"
        BY <4>1, UseStores, RebuildStores
      <4> QED
        BY <4>2, RebuildStores
    <3> QED
      BY <1>3, <3>1, <3>2 DEF Change
  <2>2. cfg' = cfg
    BY <1>3 DEF Change, ClearNotFound, ClearRedirect, StoreSnapshot, RangeKeys, DeleteKey, shared
  <2>3. Store(a) \/ UNCHANGED <<mu, prog, done>>
    BY <1>3 DEF Change, ClearNotFound, ClearRedirect, StoreSnapshot, RangeKeys, DeleteKey
  <2> QED
    BY <1>0, <1>1, <2>1, <2>2, <2>3
<1> QED
  BY <1>2, <1>3

\* Rebuild drops the snapshot before it returns.
LEMMA ChangeCopies ==
    ASSUME Typed, FieldsSince, \A p \in Request : CopySince(p), NEW a \in Admin, Change(a)
    PROVE  FieldsSince' /\ \A p \in Request : CopySince(p)'
<1>0. /\ ProgOK(a) /\ DOMAIN prog = Admin /\ done \in Done /\ SharedOK
      /\ done.fields \in Conf /\ done.from \in [Admin -> Conf] /\ fields \in Conf
      /\ (cfg # Nil => cfg \in Conf) /\ \A p \in Request : req[p].since.fields \in Conf
  BY DEF Typed, Done, SharedOK, LocalOK, Local
<1>1. UNCHANGED <<fields, req>>
  BY ChangeKeeps
<1>2. /\ prog[a] \in Using \cup Rebuilding /\ prog[a] # <<>>
      /\ IF prog[a] = R1 THEN cfg' = Nil ELSE cfg' = cfg
      /\ Store(a) \/ (UNCHANGED <<mu, prog, done>> /\ prog[a] # R1)
  BY ChangeMoves, StoresDiffer
<1>c. done'.fields = done.fields => \A p \in Request : CopySince(p)'
  BY <1>1 DEF CopySince, At
<1>3. CASE UNCHANGED <<mu, prog, done>> /\ prog[a] # R1
  BY <1>1, <1>2, <1>3, <1>c DEF FieldsSince
<1>4. CASE Store(a)
  <2>1. /\ \A b \in Admin \ {a} : prog'[b] = prog[b]
        /\ prog[a] = U1 => prog'[a] = U2
        /\ prog[a] = U2 => prog'[a] = U3
        /\ prog[a] = U3 => prog'[a] = U4
        /\ prog[a] \in {U4, R5} => prog'[a] = <<>>
        /\ prog[a] = R1 => prog'[a] = R2
        /\ prog[a] = R2 => prog'[a] = R3
        /\ prog[a] = R3 => prog'[a] = R4
        /\ prog[a] = R4 => prog'[a] = R5
    BY <1>0, <1>4, StoreNext
  <2>2. /\ prog[a] \in {U1, U2, U3, R1, R2, R3, R4} => done' = done
        /\ prog[a] = U4 => done' = [done EXCEPT !.mw = middleware]
        /\ prog[a] = R5 => done' = [done EXCEPT !.fields = Newest(done.fields, done.from[a])]
    BY <1>0, <1>2, <1>4, StoreMoves
  <2>3. done'.from = done.from
    <3>1. CASE prog[a] = U4
      BY <1>0, <2>2, <3>1 DEF Done
    <3>2. CASE prog[a] = R5
      BY <1>0, <2>2, <3>2 DEF Done
    <3> QED
      BY <1>2, <2>2, <3>1, <3>2 DEF Using, Rebuilding
  <2>4. \A b \in Admin : prog'[b] \in Rebuilding => prog[b] \in Rebuilding
                                                    /\ (b # a => prog'[b] = prog[b])
    <3>1. prog[a] \in Using => prog'[a] \in Using \cup {<<>>}
      BY <2>1 DEF Using
    <3>2. prog[a] \in Using => prog'[a] \notin Rebuilding
      BY <3>1, StoresDiffer
    <3> QED
      BY <1>2, <2>1, <3>2
  <2>5. CASE prog[a] = R5
    <3>1. done'.fields = Newest(done.fields, done.from[a]) /\ done.from[a] \in Conf
      BY <1>0, <2>2, <2>5 DEF Done
    <3>2. R5 \in Rebuilding /\ R5 # R1
      BY RebuildStores DEF Rebuilding
    <3>3. AtLeast(fields, done'.fields)
      BY <1>0, <2>5, <3>1, <3>2, NewestLeast DEF FieldsSince
    <3>4. cfg # Nil => AtLeast(cfg, done'.fields)
      BY <1>0, <2>5, <3>1, <3>2, NewestLeast DEF FieldsSince
    <3>5. FieldsSince'
      BY <1>1, <1>2, <2>1, <2>3, <2>4, <2>5, <3>2, <3>3, <3>4 DEF FieldsSince
    <3>6. ASSUME NEW p \in Request PROVE CopySince(p)'
      <4>1. AtLeast(done'.fields, done.fields) /\ done'.fields \in Conf
        <5>1. Newest(done.fields, done.from[a]) \in Conf
          BY <1>0, <3>1 DEF Newest, Conf
        <5> QED
          BY <1>0, <3>1, <5>1, NewestLeast
      <4>2. ~ At(p, "idle") => AtLeast(done'.fields, req[p].since.fields)
        BY <1>0, <4>1, AtLeastBoth DEF CopySince
      <4> QED
        BY <1>1, <4>2 DEF CopySince, At
    <3> QED
      BY <3>5, <3>6
  <2>6. CASE prog[a] # R5
    <3>1. done'.fields = done.fields
      <4>1. CASE prog[a] = U4
        BY <1>0, <2>2, <4>1 DEF Done
      <4> QED
        BY <1>2, <2>2, <2>6, <4>1 DEF Using, Rebuilding
    <3>2. \A b \in Admin : prog'[b] \in Rebuilding \ {R1} =>
             prog[b] \in Rebuilding \ {R1} \/ cfg' = Nil
      BY <1>2, <2>4
    <3>3. cfg' # Nil => cfg' = cfg
      BY <1>2
    <3> QED
      BY <1>1, <1>c, <2>3, <2>4, <3>1, <3>2, <3>3 DEF FieldsSince
  <2> QED
    BY <2>5, <2>6
<1> QED
  BY <1>2, <1>3, <1>4

\* A call of Rebuild notes the fields it is called with.
LEMMA RebuildCopies ==
    ASSUME Typed, FieldsSince, \A p \in Request : CopySince(p), NEW a \in Admin, Rebuild(a)
    PROVE  FieldsSince' /\ \A p \in Request : CopySince(p)'
<1>0. DOMAIN prog = Admin /\ done \in Done /\ fields \in Conf
  BY DEF Typed, SharedOK
<1>1. /\ prog' = [prog EXCEPT ![a] = R1] /\ UNCHANGED <<fields, cfg, req>>
      /\ done' = [done EXCEPT !.rebuilds = @ + 1, !.from[a] = fields]
  BY DEF Rebuild, R1, shared
<1>2. done'.fields = done.fields /\ done'.from = [done.from EXCEPT ![a] = fields]
  BY <1>0, <1>1 DEF Done
<1>3. done'.from[a] = fields /\ \A b \in Admin \ {a} : done'.from[b] = done.from[b]
  BY <1>0, <1>2 DEF Done
<1>4. prog'[a] = R1 /\ \A b \in Admin \ {a} : prog'[b] = prog[b]
  BY <1>0, <1>1
<1>5. FieldsSince'
  BY <1>0, <1>1, <1>2, <1>3, <1>4, AtLeastItself DEF FieldsSince
<1> QED
  BY <1>1, <1>2, <1>5 DEF CopySince, At

\* A program keeps to the rules it obeys.
LEMMA OverlapStays == Typed /\ [Next]_vars => overlap' = overlap
<1> SUFFICES ASSUME Typed, [Next]_vars PROVE overlap' = overlap
  OBVIOUS
<1>1. ASSUME NEW p \in Request, Arrive(p) \/ Step(p) PROVE overlap' = overlap
  BY <1>1, OthersKeep DEF Typed
<1> QED
  BY <1>1, ChangeKeeps DEF Next, Use, Pre, Rebuild, Assign, admin, vars

\* Nothing is published at the start.
LEMMA ConfigInit == Init => ConfigSince
<1> SUFFICES ASSUME Init PROVE FieldsSince /\ \A p \in Request : CopySince(p)
  BY DEF ConfigSince
<1>1. FieldsSince
  BY StoresDiffer DEF Init, FieldsSince, AtLeast
<1> QED
  BY <1>1 DEF Init, CopySince, Idle, At

\* Every step keeps the published configuration recent.
LEMMA ConfigStep == Typed /\ ConfigSince /\ [Next]_vars => ConfigSince'
<1> SUFFICES ASSUME Typed, ConfigSince, [Next]_vars, "assign" \notin overlap'
             PROVE  FieldsSince' /\ \A p \in Request : CopySince(p)'
  BY DEF ConfigSince
<1>0. overlap' = overlap
  BY OverlapStays
<1>1. FieldsSince /\ \A p \in Request : CopySince(p)
  BY <1>0 DEF ConfigSince
<1>2. ASSUME NEW p \in Request, Arrive(p) \/ Step(p)
      PROVE  FieldsSince' /\ \A q \in Request : CopySince(q)'
  <2>1. UNCHANGED <<fields, done>> /\ \A q \in Request \ {p} : req'[q] = req[q]
    BY <1>2, OthersKeep DEF Typed
  <2>2. \A q \in Request \ {p} : CopySince(q)'
    BY <1>1, <2>1 DEF CopySince, At
  <2> QED
    BY <1>1, <1>2, <2>2, RequestCopies
\* No request is in flight when a field is assigned.
<1>3. ASSUME NEW f \in Fields, Assign(f) PROVE FieldsSince' /\ \A p \in Request : CopySince(p)'
  <2>1. /\ \A p \in Request : req[p].pc = "idle"
        /\ fields' = [fields EXCEPT ![f] = @ + 1] /\ UNCHANGED <<cfg, prog, done, req>>
    BY <1>0, <1>3 DEF Assign, MayCall, At, admin
  <2>2. AtLeast(fields', fields) /\ fields' \in Conf /\ fields \in Conf /\ done.fields \in Conf
        /\ done.from \in [Admin -> Conf]
    BY <2>1 DEF Typed, SharedOK, Conf, AtLeast, Done
  <2>3. FieldsSince'
    BY <1>1, <2>1, <2>2, AtLeastBoth DEF FieldsSince
  <2>4. \A p \in Request : CopySince(p)'
    BY <1>1, <2>1 DEF CopySince, At
  <2> QED
    BY <2>3, <2>4
<1>4. ASSUME NEW a \in Admin, NEW k \in 0..1, Use(a, k)
      PROVE  FieldsSince' /\ \A p \in Request : CopySince(p)'
  <2>1. done' = [done EXCEPT !.uses = @ + 1] /\ UNCHANGED <<fields, cfg, req>>
        /\ prog' = [prog EXCEPT ![a] = U1]
    BY <1>4 DEF Use, U1
  <2>2. done'.fields = done.fields /\ done'.from = done.from
    BY <2>1 DEF Typed, Done
  <2>3. U1 \notin Rebuilding
    BY StoresDiffer DEF Using
  <2>4. \A b \in Admin : prog'[b] \in Rebuilding => prog'[b] = prog[b]
    BY <2>1, <2>3 DEF Typed
  <2> QED
    BY <1>1, <2>1, <2>2, <2>4 DEF FieldsSince, CopySince, At
<1>5. ASSUME NEW a \in Admin, Pre(a) PROVE FieldsSince' /\ \A p \in Request : CopySince(p)'
  BY <1>1, <1>5 DEF Pre, admin, FieldsSince, CopySince, At
<1>6. CASE UNCHANGED vars
  BY <1>1, <1>6 DEF vars, FieldsSince, CopySince, At
<1> QED
  BY <1>1, <1>2, <1>3, <1>4, <1>5, <1>6, RebuildCopies, ChangeCopies DEF Next

\* A request that arrives after a Rebuild returned works with values no older than those
\* the Rebuild was called with, when fields are assigned only between requests; Rebuild
\* itself may overlap any of them.
THEOREM RebuildReachesRequests == Spec => []ConfigCurrent
<1>1. ConfigSince => ConfigCurrent
  BY DEF ConfigSince, ConfigCurrent, CopySince
<1> QED
  BY <1>1, AlwaysTyped, ConfigInit, ConfigStep, PTL DEF Spec

-----------------------------------------------------------------------------
(* The cached handlers.                                                    *)

\* A request that takes a step has arrived.
LEMMA StepBusy == ASSUME NEW p, Step(p) PROVE ~ At(p, "idle")
BY DEF Step, LoadConfig, ReadField, SwapConfig, ReloadConfig, Serve, Dispatch, LookupHandler,
       ReadMiddleware, StoreHandler, LoadSnapshot, LookupRedirect, LoadRedirect, SwapRedirect,
       Finish, At

\* A step of a goroutine that reconfigures drops handlers and caches none; each store drops
\* what it is to drop, and when the call returns none is left.
LEMMA ChangeDrops ==
    ASSUME Typed, NEW a \in Admin, Change(a), \A s \in Slots : Dropped(a, s) => cache[s] = Nil
    PROVE  /\ \A s \in Slots : Dropped(a, s)' => cache'[s] = Nil
           /\ prog'[a] = <<>> => \A s \in Slots : cache'[s] = Nil
<1>0. /\ ProgOK(a) /\ DOMAIN prog = Admin /\ DOMAIN cache = Slots /\ DOMAIN pending = Admin
      /\ prog[a] \in Using \cup Rebuilding
  BY ChangeMoves DEF Typed, SharedOK
<1>1. ASSUME NEW s \in Slots
      PROVE  \/ s \in NotFound /\ s \notin NotAllowed /\ s \notin Options
             \/ s \in NotAllowed /\ s \notin NotFound /\ s \notin Options
             \/ s \in Options /\ s \notin NotFound /\ s \notin NotAllowed
  BY SlotsAssumption DEF SlotsAssumption, Slots
<1>2. Store(a) => /\ prog[a] = U1 => prog'[a] = U2
                  /\ prog[a] = U2 => prog'[a] = U3
                  /\ prog[a] = U3 => prog'[a] = U4
                  /\ prog[a] \in {U4, R5} => prog'[a] = <<>>
                  /\ prog[a] = R1 => prog'[a] = R2
                  /\ prog[a] = R2 => prog'[a] = R3
                  /\ prog[a] = R3 => prog'[a] = R4
                  /\ prog[a] = R4 => prog'[a] = R5
  BY <1>0, StoreNext
\* The calls differ by their lengths, and Use from Rebuild.
<1>3. /\ U1 \notin {U2, U3, U4, R1, R2, R3, R4, R5, <<>>}
      /\ U2 \notin {U3, U4, R1, R2, R3, R4, R5, <<>>}
      /\ U3 \notin {U4, R1, R2, R3, R4, R5, <<>>} /\ U4 \notin {R1, R2, R3, R4, R5, <<>>}
      /\ R1 \notin {R2, R3, R4, R5, <<>>} /\ R2 \notin {R3, R4, R5, <<>>}
      /\ R3 \notin {R4, R5, <<>>} /\ R4 \notin {R5, <<>>} /\ R5 # <<>>
  <2>1. \A t \in {U1, U2, U3, U4, R1, R2, R3, R4, R5} : t # <<>>
    BY StoresDiffer DEF Using, Rebuilding
  <2>2. U1 \notin {U2, U3, U4} /\ U2 \notin {U3, U4} /\ U3 # U4
    BY UseStores
  <2>3. R1 \notin {R2, R3, R4, R5} /\ R2 \notin {R3, R4, R5} /\ R3 \notin {R4, R5} /\ R4 # R5
    BY RebuildStores
  <2>4. \A t \in {U1, U2, U3, U4} : t \notin {R1, R2, R3, R4, R5}
    BY StoresDiffer DEF Using, Rebuilding
  <2> QED
    BY <2>1, <2>2, <2>3, <2>4
\* What is dropped at each point, and so what the next point has dropped.
<1>4. ASSUME NEW s \in Slots, Store(a), pending'[a] = {}, Dropped(a, s)'
      PROVE  \/ Dropped(a, s)
             \/ s \in NotFound /\ prog[a] \in {U1, R2}
             \/ s \in NotAllowed /\ prog[a] \in {U2, R4}
             \/ s \in Options /\ prog[a] \in {U3, R5}
  <2>1. CASE s \in NotFound
    BY <1>0, <1>1, <1>2, <1>3, <1>4, <2>1 DEF Dropped, Using, Rebuilding
  <2>2. CASE s \in NotAllowed
    <3>1. prog'[a] \in {U3, U4, R5, <<>>}
      BY <1>1, <1>4, <2>2 DEF Dropped
    <3>2. prog[a] \in {U2, U3, U4, R4, R5}
      BY <1>0, <1>2, <1>3, <1>4, <3>1 DEF Using, Rebuilding
    <3> QED
      BY <2>2, <3>2 DEF Dropped
  <2>3. CASE s \in Options
    <3>1. prog'[a] \in {U4, <<>>}
      BY <1>1, <1>4, <2>3 DEF Dropped
    <3>2. prog[a] \in {U3, U4, R5}
      BY <1>0, <1>2, <1>3, <1>4, <3>1 DEF Using, Rebuilding
    <3> QED
      BY <2>3, <3>2 DEF Dropped
  <2> QED
    BY <2>1, <2>2, <2>3 DEF Slots
<1>5. (\A s \in Slots : Dropped(a, s)' => cache'[s] = Nil)
         => (prog'[a] = <<>> => \A s \in Slots : cache'[s] = Nil)
  <2>1. ASSUME NEW s \in Slots, prog'[a] = <<>> PROVE Dropped(a, s)'
    BY <1>3, <2>1 DEF Dropped, Slots
  <2> QED
    BY <2>1
<1>6. CASE ClearNotFound(a)
  <2>1. Store(a) /\ prog[a] \in {U1, R2} /\ pending' = pending
        /\ cache' = [s \in Slots |-> IF s \in NotFound THEN Nil ELSE cache[s]]
    BY <1>0, <1>6, StoreOf DEF ClearNotFound
  <2>2. pending'[a] = {}
    BY <1>0, <1>3, <2>1 DEF ProgOK
  <2>3. ASSUME NEW s \in Slots, Dropped(a, s)' PROVE cache'[s] = Nil
    BY <1>3, <1>4, <2>1, <2>2, <2>3
  <2> QED
    BY <1>5, <2>3
<1>7. CASE ClearConfig(a) \/ ClearRedirect(a) \/ StoreSnapshot(a)
  <2>1. Store(a) /\ prog[a] \in {R1, R3, U4} /\ pending' = pending /\ cache' = cache
    BY <1>0, <1>7, StoreOf DEF ClearConfig, ClearRedirect, StoreSnapshot
  <2>2. pending'[a] = {}
    BY <1>0, <1>3, <2>1 DEF ProgOK
  <2>3. ASSUME NEW s \in Slots, Dropped(a, s)' PROVE cache'[s] = Nil
    BY <1>3, <1>4, <2>1, <2>2, <2>3
  <2> QED
    BY <1>5, <2>3
<1>8. ASSUME NEW store \in {"notAllowed", "options"}, RangeKeys(a, store)
      PROVE  \A s \in Slots : Dropped(a, s)' => cache'[s] = Nil
  <2> DEFINE there == {s \in Keys(store) : cache[s] # Nil}
  <2>1. PICK more \in SUBSET (Keys(store) \ there) :
           IF there \cup more = {} THEN Store(a) /\ UNCHANGED pending
           ELSE /\ pending' = [pending EXCEPT ![a] = there \cup more]
                /\ UNCHANGED <<mu, prog, done, overlap>>
    BY <1>8 DEF RangeKeys
  <2>2. /\ store = "notAllowed" => prog[a] \in {U2, R4} /\ Keys(store) = NotAllowed
        /\ store = "options" => prog[a] \in {U3, R5} /\ Keys(store) = Options
        /\ pending[a] = {} /\ cache' = cache
    BY <1>0, <1>8, StoreOf DEF RangeKeys, Keys, shared
  <2> SUFFICES ASSUME NEW s \in Slots, Dropped(a, s)' PROVE cache[s] = Nil
    BY <2>2
  <2>3. CASE there \cup more = {}
    <3>1. Store(a) /\ pending'[a] = {}
      BY <2>1, <2>2, <2>3
    <3>2. \A k \in Keys(store) : cache[k] = Nil
      BY <2>3
    <3>3. /\ s \in NotFound => prog[a] \notin {U1, R2}
          /\ s \in NotAllowed /\ prog[a] \in {U2, R4} => s \in Keys(store)
          /\ s \in Options /\ prog[a] \in {U3, R5} => s \in Keys(store)
      BY <1>3, <2>2
    <3> QED
      BY <1>4, <3>1, <3>2, <3>3
  <2>4. CASE there \cup more # {}
    <3>1. pending'[a] = there \cup more /\ prog' = prog
      BY <1>0, <2>1, <2>4
    <3>2. Dropped(a, s) \/ (s \in Keys(store) /\ s \notin pending'[a])
      BY <1>1, <1>3, <2>2, <3>1 DEF Dropped
    <3>3. s \in Keys(store) /\ s \notin pending'[a] => cache[s] = Nil
      BY <3>1
    <3> QED
      BY <3>2, <3>3
  <2> QED
    BY <2>3, <2>4
<1>9. ASSUME NEW k \in Slots, DeleteKey(a, k)
      PROVE  \A s \in Slots : Dropped(a, s)' => cache'[s] = Nil
  <2>1. /\ k \in pending[a] /\ cache' = [cache EXCEPT ![k] = Nil]
        /\ pending'[a] = pending[a] \ {k}
        /\ IF pending[a] = {k} THEN Store(a) ELSE UNCHANGED prog
    BY <1>0, <1>9 DEF DeleteKey
  <2>2. \/ prog[a] \in {U2, R4} /\ pending[a] \subseteq NotAllowed
        \/ prog[a] \in {U3, R5} /\ pending[a] \subseteq Options
    BY <1>0, <2>1 DEF ProgOK
  <2> SUFFICES ASSUME NEW s \in Slots, Dropped(a, s)', s # k PROVE cache[s] = Nil
    BY <1>0, <2>1
  <2>3. CASE pending[a] = {k}
    <3>1. Store(a) /\ pending'[a] = {}
      BY <2>1, <2>3
    <3>2. \/ Dropped(a, s)
          \/ s \in NotFound /\ prog[a] \in {U1, R2}
          \/ s \in NotAllowed /\ prog[a] \in {U2, R4}
          \/ s \in Options /\ prog[a] \in {U3, R5}
      BY <1>4, <3>1
    <3>3. s \notin pending[a] /\ pending[a] # {}
      BY <2>3
    <3>4. Dropped(a, s)
      BY <1>3, <2>2, <3>2, <3>3 DEF Dropped
    <3> QED
      BY <3>4
  <2>4. CASE pending[a] # {k}
    <3>1. pending[a] # {} /\ prog' = prog
      BY <2>1, <2>4, <1>9 DEF DeleteKey
    <3>2. Dropped(a, s)
      BY <1>1, <1>3, <2>1, <2>2, <3>1 DEF Dropped
    <3> QED
      BY <3>2
  <2> QED
    BY <2>3, <2>4
<1> QED
  BY <1>5, <1>6, <1>7, <1>8, <1>9 DEF Change

\* It changes nothing of another's call, and caches nothing.
LEMMA ChangeOthers ==
    ASSUME Typed, NEW a \in Admin, Change(a)
    PROVE  /\ \A b \in Admin \ {a} : prog'[b] = prog[b] /\ pending'[b] = pending[b]
           /\ \A s \in Slots : cache'[s] \in {cache[s], Nil}
<1>0. DOMAIN prog = Admin /\ DOMAIN pending = Admin /\ DOMAIN cache = Slots
  BY DEF Typed, SharedOK
<1>1. \A b \in Admin \ {a} : prog'[b] = prog[b]
  BY <1>0, ChangeMoves, StoreNext
<1>2. \A b \in Admin \ {a} : pending'[b] = pending[b]
  BY <1>0 DEF Change, ClearConfig, ClearNotFound, ClearRedirect, StoreSnapshot, RangeKeys,
     DeleteKey
<1>3. \A s \in Slots : cache'[s] \in {cache[s], Nil}
  BY <1>0 DEF Change, ClearConfig, ClearNotFound, ClearRedirect, StoreSnapshot, RangeKeys,
     DeleteKey, shared
<1> QED
  BY <1>1, <1>2, <1>3

\* A request in flight, or arriving, finds mu free.
LEMMA UseWaits ==
    ASSUME Typed, HandlersSince, "use" \notin overlap, NEW p \in Request, Arrive(p) \/ Step(p)
    PROVE  mu = Nil
<1> SUFFICES ASSUME mu # Nil PROVE FALSE
  OBVIOUS
<1>1. mu \in Admin /\ prog[mu] \in Using /\ AllIdle
  BY DEF Typed, ProgOK, HandlersSince
<1>2. Arrive(p)
  BY <1>1, StepBusy DEF AllIdle
<1>3. prog[mu] # <<>>
  BY <1>1, StoresDiffer
<1> QED
  BY <1>1, <1>2, <1>3 DEF Arrive, MayServe

\* A request caches handlers with all middleware, when Use never overlaps one.
LEMMA RequestWraps ==
    ASSUME Typed, RedirectSince, HandlersSince, "use" \notin overlap,
           NEW p \in Request, WrapSince(p), Arrive(p) \/ Step(p)
    PROVE  HandlersSince' /\ WrapSince(p)'
<1> DEFINE r == req[p]
           s == req'[p]
<1>0. /\ mu = Nil /\ UNCHANGED <<mu, middleware, done>> /\ done.mw = middleware
      /\ LocalOK(r) /\ r \in Local /\ SharedOK /\ (r.pc # "idle" => r.since.mw <= middleware)
      /\ r.since.mw \in Nat /\ middleware \in Nat
      /\ \A k \in Slots : cache[k] # Nil => cache[k].mw = middleware
  BY UseWaits, OthersKeep
     DEF Typed, LocalOK, HandlersSince, RedirectSince, SinceOK, SharedOK, Local, At
<1>1. cache' = cache => HandlersSince'
  BY <1>0 DEF HandlersSince
<1> USE DEF WrapSince, At, Redirecting, SameAnswer, SameSlot, SameConf, Gets, Redirects
<1>2. CASE Arrive(p)
  BY <1>1, <1>2, ArriveEffect
<1>3. CASE LoadConfig(p) \/ SwapConfig(p) \/ ReloadConfig(p)
  <2>1. r.pc \in {"config", "freeze", "reload"} /\ s.out = r.out /\ cache' = cache
        /\ s.pc # "store"
    BY <1>3, ConfigEffects
  <2> QED
    BY <1>0, <1>1, <2>1 DEF LocalOK
<1>4. CASE ReadField(p)
  <2>1. r.pc = "freeze" /\ s.out = r.out /\ cache' = cache /\ s.pc # "store"
    BY <1>4, ReadFieldEffect
  <2> QED
    BY <1>0, <1>1, <2>1 DEF LocalOK
<1>5. CASE Serve(p) \/ Dispatch(p)
  <2>1. r.pc \in {"serve", "dispatch"} /\ s.out = r.out /\ cache' = cache /\ s.pc # "store"
    BY <1>5, ServeEffects
  <2> QED
    BY <1>0, <1>1, <2>1 DEF LocalOK
<1>6. CASE LookupHandler(p)
  <2>1. /\ r.slot \in Slots /\ r.pc # "idle" /\ r.out = Nil /\ cache' = cache
        /\ s.since = r.since
        /\ \/ s.pc = "wrap" /\ s.out = r.out
           \/ s.pc = "done" /\ cache[r.slot] # Nil /\ s.out = cache[r.slot]
    BY <1>0, <1>6, HandlerEffects DEF LocalOK, LookupHandler
  <2> QED
    BY <1>0, <1>1, <2>1
<1>7. CASE ReadMiddleware(p)
  <2>1. r.out = Nil /\ cache' = cache /\ s.mw = middleware /\ s.out = r.out
    BY <1>0, <1>7, HandlerEffects DEF LocalOK, ReadMiddleware
  <2> QED
    BY <1>0, <1>1, <2>1
<1>8. CASE StoreHandler(p)
  <2> DEFINE e == [handler |-> r.cfg[FieldOf[r.slot]], mw |-> r.mw]
  <2>1. /\ r.slot \in Slots /\ r.pc = "store" /\ s.pc = "done" /\ s.since = r.since
        /\ s.out = e /\ cache' = [cache EXCEPT ![r.slot] = e]
    BY <1>8, HandlerEffects
  <2>2. e.mw = middleware
    BY <2>1
  <2> HIDE DEF e
  <2>3. \A k \in Slots : cache'[k] # Nil => cache'[k].mw = middleware
    BY <1>0, <2>1, <2>2 DEF SharedOK
  <2>4. HandlersSince'
    BY <1>0, <2>3 DEF HandlersSince
  <2> QED
    BY <1>0, <2>1, <2>2, <2>4
<1>9. CASE LoadSnapshot(p) \/ LookupRedirect(p) \/ LoadRedirect(p) \/ SwapRedirect(p)
  <2>1. /\ r.pc \in {"redirect", "cached", "newer", "swap"} /\ cache' = cache
        /\ s.slot = r.slot /\ s.pc # "store"
    BY <1>9, RedirectEffects
  <2>2. s.slot = Nil
    BY <1>0, <2>1 DEF LocalOK
  <2> QED
    BY <1>1, <2>1, <2>2
<1>10. CASE Finish(p)
  BY <1>1, <1>10, FinishEffect DEF Idle
<1> QED
  BY <1>2, <1>3, <1>4, <1>5, <1>6, <1>7, <1>8, <1>9, <1>10 DEF Step

\* Requests at rest have no handler.
LEMMA RestWraps ==
    ASSUME Typed, AllIdle, UNCHANGED req PROVE \A p \in Request : WrapSince(p)'
BY DEF Typed, AllIdle, LocalOK, Idle, WrapSince, At

\* Use drops each cached handler before it returns.
LEMMA ChangeWraps ==
    ASSUME Typed, Chains, HandlersSince, \A p \in Request : WrapSince(p), NEW a \in Admin, Change(a)
    PROVE  HandlersSince' /\ \A p \in Request : WrapSince(p)'
<1>0. /\ UNCHANGED <<middleware, req>> /\ ProgOK(a) /\ DOMAIN cache = Slots
      /\ prog[a] \in Using \cup Rebuilding /\ prog[a] # <<>> /\ done \in Done
      /\ Store(a) \/ (UNCHANGED <<mu, prog, done>> /\ prog[a] # R1)
      /\ \A k \in Slots : cache'[k] \in {cache[k], Nil}
      /\ \A b \in Admin \ {a} : prog'[b] = prog[b] /\ pending'[b] = pending[b]
  BY ChangeKeeps, ChangeMoves, ChangeOthers, StoresDiffer DEF Typed, SharedOK
<1>1. \A p \in Request : WrapSince(p)'
  BY <1>0 DEF WrapSince, At, Redirecting
\* The last store of Use gives mu back; no other store does.
<1>2. (prog[a] = U4 /\ Store(a) => mu' = Nil /\ done' = [done EXCEPT !.mw = middleware])
      /\ (~ (prog[a] = U4 /\ Store(a)) => mu' = mu)
  BY <1>0, StoreMoves DEF Using, Rebuilding
<1>3. CASE mu = Nil
  <2>1. mu' = Nil /\ prog[a] # U4
    <3>1. U4 \in Using /\ mu # a
      BY <1>3, NilIsNone DEF Using
    <3>2. prog[a] # U4
      BY <1>0, <3>1, StoresDiffer DEF ProgOK
    <3> QED
      BY <1>2, <1>3, <3>2
  <2>2. done'.mw = done.mw
    BY <2>1, ChangeEffects
  <2> QED
    BY <1>0, <1>1, <1>3, <2>1, <2>2 DEF HandlersSince
<1>4. CASE mu # Nil /\ mu # a
  <2>1. mu' = mu /\ mu \in Admin \ {a}
    <3>1. U4 \in Using
      BY DEF Using
    <3>2. prog[a] # U4
      BY <1>0, <1>4, <3>1, StoresDiffer DEF ProgOK
    <3> QED
      BY <1>2, <1>4, <3>2 DEF Typed
  <2>2. ASSUME NEW s \in Slots, Dropped(mu, s)' PROVE cache'[s] = Nil
    <3>1. Dropped(mu, s)
      BY <1>0, <2>1, <2>2 DEF Dropped
    <3> QED
      BY <1>0, <1>4, <3>1 DEF HandlersSince
  <2>3. \A s \in Slots : Dropped(mu, s)' => cache'[s] = Nil
    BY <2>2
  <2> QED
    BY <1>0, <1>1, <1>4, <2>1, <2>3 DEF HandlersSince, AllIdle, At, Dropped
<1>5. CASE mu = a
  <2>1. AllIdle /\ \A s \in Slots : Dropped(a, s) => cache[s] = Nil
    BY <1>5, NilIsNone DEF HandlersSince
  <2>2. /\ \A s \in Slots : Dropped(a, s)' => cache'[s] = Nil
        /\ prog'[a] = <<>> => \A s \in Slots : cache'[s] = Nil
    BY <2>1, ChangeDrops
  <2>3. CASE prog[a] = U4 /\ Store(a)
    <3>1. prog'[a] = <<>>
      BY <2>3, StoreNext DEF Typed
    <3>2. mu' = Nil /\ done'.mw = middleware'
      BY <1>0, <1>2, <2>3 DEF Done
    <3> QED
      BY <1>1, <2>2, <3>1, <3>2 DEF HandlersSince
  <2>4. CASE ~ (prog[a] = U4 /\ Store(a))
    <3>1. mu' = a
      BY <1>2, <1>5, <2>4
    <3> QED
      BY <1>0, <1>1, <2>1, <2>2, <3>1, NilIsNone DEF HandlersSince, AllIdle, At, Dropped
  <2> QED
    BY <2>3, <2>4
<1> QED
  BY <1>3, <1>4, <1>5

\* Every step keeps the cached handlers recent.
LEMMA CachedStep ==
    Typed /\ Chains /\ RedirectSince /\ CachedSince /\ [Next]_vars => CachedSince'
<1> SUFFICES ASSUME Typed, Chains, RedirectSince, CachedSince, [Next]_vars,
                    "use" \notin overlap'
             PROVE  HandlersSince' /\ \A p \in Request : WrapSince(p)'
  BY DEF CachedSince
<1>0. overlap' = overlap
  BY OverlapStays
<1>1. HandlersSince /\ "use" \notin overlap /\ \A p \in Request : WrapSince(p)
  BY <1>0 DEF CachedSince
<1>2. ASSUME NEW p \in Request, Arrive(p) \/ Step(p)
      PROVE  HandlersSince' /\ \A q \in Request : WrapSince(q)'
  <2>1. UNCHANGED middleware /\ \A q \in Request \ {p} : req'[q] = req[q]
    BY <1>2, OthersKeep DEF Typed
  <2>2. \A q \in Request \ {p} : WrapSince(q)'
    BY <1>1, <2>1 DEF WrapSince, At, Redirecting
  <2> QED
    BY <1>1, <1>2, <2>2, RequestWraps
<1>3. ASSUME NEW a \in Admin, NEW k \in 0..1, Use(a, k)
      PROVE  HandlersSince' /\ \A p \in Request : WrapSince(p)'
  <2>1. /\ AllIdle /\ mu' = a /\ UNCHANGED <<cache, pending, req>>
        /\ prog' = [prog EXCEPT ![a] = U1] /\ DOMAIN prog = Admin
    BY <1>1, <1>3 DEF Use, MayCall, AllIdle, U1, Typed
  <2>2. prog'[a] = U1
    BY <2>1
  <2>3. U1 \notin {U2, U3, U4, R4, R5, <<>>}
    <3>1. U1 \notin {U2, U3, U4}
      BY UseStores
    <3>2. U1 \notin {R4, R5, <<>>}
      BY StoresDiffer DEF Using, Rebuilding
    <3> QED
      BY <3>1, <3>2
  <2>4. \A s \in Slots : ~ Dropped(a, s)'
    BY <2>2, <2>3 DEF Dropped
  <2>5. \A s \in Slots : ~ Dropped(mu, s)'
    BY <2>1, <2>4 DEF Dropped
  <2>6. HandlersSince'
    BY <2>1, <2>5, NilIsNone DEF HandlersSince, AllIdle, At
  <2> QED
    BY <2>1, <2>6, RestWraps
<1>4. ASSUME NEW a \in Admin, Rebuild(a) PROVE HandlersSince' /\ \A p \in Request : WrapSince(p)'
  <2>1. /\ prog[a] = <<>> /\ UNCHANGED <<middleware, cache, mu, pending, req>>
        /\ \A b \in Admin \ {a} : prog'[b] = prog[b]
    BY <1>4 DEF Rebuild, shared, Typed
  <2>2. done'.mw = done.mw
    BY <1>4 DEF Rebuild, Typed, Done
  <2>3. mu # a
    BY <2>1, StoresDiffer DEF Typed, ProgOK
  <2>4. mu # Nil => mu \in Admin \ {a}
    BY <2>3 DEF Typed
  <2>5. mu # Nil => \A s \in Slots : Dropped(mu, s)' => Dropped(mu, s)
    BY <2>1, <2>4 DEF Dropped
  <2> QED
    BY <1>1, <2>1, <2>2, <2>5 DEF HandlersSince, AllIdle, WrapSince, At, Redirecting
<1>5. CASE /\ UNCHANGED <<middleware, cache, req>> /\ UNCHANGED <<mu, prog, pending, done>>
  BY <1>1, <1>5 DEF HandlersSince, AllIdle, WrapSince, At, Redirecting, Dropped
<1>6. ASSUME NEW a \in Admin, Pre(a) PROVE HandlersSince' /\ \A p \in Request : WrapSince(p)'
  BY <1>5, <1>6 DEF Pre, admin
<1>7. ASSUME NEW f \in Fields, Assign(f) PROVE HandlersSince' /\ \A p \in Request : WrapSince(p)'
  BY <1>5, <1>7 DEF Assign, admin
<1>8. CASE UNCHANGED vars
  BY <1>5, <1>8 DEF vars
<1> QED
  BY <1>1, <1>2, <1>3, <1>4, <1>6, <1>7, <1>8, ChangeWraps DEF Next

\* No handler is cached at the start.
LEMMA CachedInit == Init => CachedSince
<1> SUFFICES ASSUME Init PROVE HandlersSince /\ \A p \in Request : WrapSince(p)
  BY DEF CachedSince
<1>1. HandlersSince
  BY DEF Init, HandlersSince
<1> QED
  BY <1>1 DEF Init, WrapSince, Idle, At

\* The 404, 405 and OPTIONS handlers run every middleware that a Use which returned before
\* the request arrived had registered, if Use is called only between requests.
THEOREM HandlersLiveBound == Spec => []LiveBinding
<1>1. CachedSince => LiveBinding
  BY DEF CachedSince, LiveBinding, WrapSince
<1> QED
  BY <1>1, AlwaysTyped, RedirectInit, RedirectStep, CachedInit, CachedStep, PTL DEF Spec

-----------------------------------------------------------------------------
(* A program that reconfigures only between requests.                      *)

\* Then no call is under way while a request is.
LEMMA QuietCalls ==
    ASSUME Typed, QuietCache, overlap = {}, NEW p \in Request, Arrive(p) \/ Step(p)
    PROVE  \A a \in Admin : prog[a] = <<>>
BY StepBusy DEF QuietCache, AllIdle, Arrive, MayServe

\* In a quiet program a request caches handlers of the published configuration only.
LEMMA RequestQuiet ==
    ASSUME Typed, FieldsSince, QuietCache, overlap = {}, \A q \in Request : QuietRequest(q),
           NEW p \in Request, CopySince(p), Arrive(p) \/ Step(p)
    PROVE  QuietCache' /\ \A q \in Request : QuietRequest(q)'
<1> DEFINE r == req[p]
           s == req'[p]
<1>0. /\ UNCHANGED <<prog, done>> /\ \A q \in Request \ {p} : req'[q] = req[q]
      /\ \A a \in Admin : prog[a] = <<>>
      /\ LocalOK(r) /\ r \in Local /\ SharedOK /\ (cfg # Nil => cfg \in Conf)
      /\ done.fields \in Conf /\ r.since.fields \in Conf
      /\ \A k \in Slots : FieldOf[k] \in Fields
      /\ \A k \in Slots : cache[k] # Nil => cache[k].handler >= done.fields[FieldOf[k]]
      /\ QuietRequest(p)
  BY QuietCalls, OthersKeep, SlotsAssumption
     DEF Typed, LocalOK, QuietCache, SharedOK, Local, Done, SlotsAssumption
<1>1. (\A k \in Slots : cache'[k] # Nil => cache'[k].handler >= done.fields[FieldOf[k]])
         => QuietCache'
  BY <1>0 DEF QuietCache
<1>2. cache' = cache => QuietCache'
  BY <1>0, <1>1
<1>3. cfg' = cfg => \A q \in Request \ {p} : QuietRequest(q)'
  BY <1>0 DEF QuietRequest, Redirecting
<1>4. ASSUME QuietCache', QuietRequest(p)', cfg' = cfg
      PROVE  QuietCache' /\ \A q \in Request : QuietRequest(q)'
  BY <1>3, <1>4
<1>5. \A k \in Slots : r.pc # "idle" => done.fields[FieldOf[k]] >= r.since.fields[FieldOf[k]]
  BY <1>0 DEF CopySince, At, AtLeast
<1>6. \A k \in Slots : done.fields[FieldOf[k]] \in Nat /\ r.since.fields[FieldOf[k]] \in Nat
  BY <1>0 DEF Conf
<1> USE DEF Redirecting, SameAnswer, SameSlot, SameConf, Gets, Redirects
<1>7. CASE Arrive(p)
  BY <1>2, <1>4, <1>7, ArriveEffect DEF QuietRequest
<1>8. CASE LoadConfig(p) \/ SwapConfig(p) \/ ReloadConfig(p)
  <2>1. r.pc \in {"config", "freeze", "reload"} /\ s.out = r.out /\ cache' = cache /\ r.out = Nil
    BY <1>0, <1>8, ConfigEffects DEF LocalOK
  <2>2. CASE cfg # Nil /\ cfg' = cfg /\ Gets(p, cfg)
    <3>1. r.back = "dispatch" => r.serve # Nil
      BY <1>0, NilIsNone DEF LocalOK
    <3>2. QuietRequest(p)'
      BY <1>0, <2>1, <2>2, <3>1 DEF QuietRequest
    <3> QED
      BY <1>2, <1>4, <2>1, <2>2, <3>2
  <2>3. CASE SwapConfig(p) /\ cfg = Nil /\ cfg' = r.cand /\ Gets(p, r.cand)
    <3>1. \A q \in Request : req[q].serve = Nil /\ req[q].cfg = Nil
      BY <2>3 DEF QuietRequest
    <3>2. r.back # "dispatch"
      BY <1>0, <3>1, NilIsNone DEF LocalOK
    <3>3. QuietRequest(p)'
      BY <2>1, <2>3, <3>1, <3>2 DEF QuietRequest
    <3>4. \A q \in Request \ {p} : QuietRequest(q)'
      BY <1>0, <3>1 DEF QuietRequest
    <3> QED
      BY <1>2, <2>1, <3>3, <3>4
  <2>4. CASE cfg' = cfg /\ SameAnswer(p) /\ SameConf(p)
    <3>1. QuietRequest(p)'
      BY <1>0, <2>1, <2>4 DEF QuietRequest
    <3> QED
      BY <1>2, <1>4, <2>1, <2>4, <3>1
  <2> QED
    BY <1>8, <2>2, <2>3, <2>4, ConfigEffects
<1>9. CASE ReadField(p)
  <2>1. /\ r.pc = "freeze" /\ s.out = r.out /\ UNCHANGED <<cfg, cache>> /\ SameConf(p)
        /\ r.out = Nil
    BY <1>0, <1>9, ReadFieldEffect DEF LocalOK
  <2>2. QuietRequest(p)'
    BY <1>0, <2>1 DEF QuietRequest
  <2> QED
    BY <1>2, <1>4, <2>1, <2>2
<1>10. CASE Serve(p) \/ Dispatch(p)
  <2>1. /\ r.pc \in {"serve", "dispatch"} /\ s.out = r.out /\ UNCHANGED <<cfg, cache>>
        /\ s.serve = r.serve /\ s.cfg \in {r.cfg, r.serve} /\ r.out = Nil
    BY <1>0, <1>10, ServeEffects DEF LocalOK
  <2>2. QuietRequest(p)'
    BY <1>0, <2>1 DEF QuietRequest
  <2> QED
    BY <1>2, <1>4, <2>1, <2>2
<1>11. CASE LookupHandler(p)
  <2>1. /\ r.slot \in Slots /\ s.slot = r.slot /\ r.pc # "idle" /\ r.out = Nil
        /\ UNCHANGED <<cfg, cache>> /\ s.since = r.since /\ SameConf(p)
        /\ s.out = r.out \/ (cache[r.slot] # Nil /\ s.out = cache[r.slot])
    BY <1>0, <1>11, HandlerEffects DEF LocalOK, LookupHandler
  <2>2. s.out # Nil => s.out.handler >= s.since.fields[FieldOf[s.slot]]
    <3>1. ASSUME cache[r.slot] # Nil PROVE cache[r.slot].handler \in Nat
      BY <1>0, <2>1, <3>1 DEF SharedOK, Entry
    <3> QED
      BY <1>0, <1>5, <1>6, <2>1, <3>1
  <2>3. QuietRequest(p)'
    BY <1>0, <2>1, <2>2 DEF QuietRequest
  <2> QED
    BY <1>2, <1>4, <2>1, <2>3
<1>12. CASE ReadMiddleware(p)
  <2>1. r.out = Nil /\ UNCHANGED <<cfg, cache>> /\ s.out = r.out /\ SameConf(p)
    BY <1>0, <1>12, HandlerEffects DEF LocalOK, ReadMiddleware
  <2>2. QuietRequest(p)'
    BY <1>0, <2>1 DEF QuietRequest
  <2> QED
    BY <1>2, <1>4, <2>1, <2>2
<1>13. CASE StoreHandler(p)
  <2> DEFINE e == [handler |-> r.cfg[FieldOf[r.slot]], mw |-> r.mw]
  <2>1. /\ r.slot \in Slots /\ s.slot = r.slot /\ r.pc = "store" /\ s.since = r.since
        /\ s.out = e /\ cache' = [cache EXCEPT ![r.slot] = e] /\ cfg' = cfg /\ SameConf(p)
    BY <1>13, HandlerEffects
  <2>2. r.cfg \in Conf /\ r.cfg = cfg /\ cfg # Nil
    BY <1>0, <2>1, NilIsNone DEF LocalOK, Reloaded, QuietRequest
  <2>3. e.handler >= done.fields[FieldOf[r.slot]] /\ e.handler \in Nat
    <3>1. AtLeast(cfg, done.fields) /\ FieldOf[r.slot] \in Fields
      BY <1>0, <2>1, <2>2 DEF FieldsSince
    <3>2. e.handler = cfg[FieldOf[r.slot]]
      BY <2>2
    <3> QED
      BY <2>2, <3>1, <3>2 DEF AtLeast, Conf
  <2> HIDE DEF e
  <2>4. QuietCache'
    <3>1. \A k \in Slots : cache'[k] # Nil => cache'[k].handler >= done.fields[FieldOf[k]]
      BY <1>0, <2>1, <2>3 DEF SharedOK
    <3> QED
      BY <1>1, <3>1
  <2>5. s.out.handler >= s.since.fields[FieldOf[s.slot]]
    BY <1>5, <1>6, <2>1, <2>3
  <2>6. QuietRequest(p)'
    BY <1>0, <2>1, <2>5 DEF QuietRequest
  <2> QED
    BY <1>4, <2>1, <2>4, <2>6
<1>14. CASE LoadSnapshot(p) \/ LookupRedirect(p) \/ LoadRedirect(p) \/ SwapRedirect(p)
  <2>1. /\ r.pc \in {"redirect", "cached", "newer", "swap"} /\ UNCHANGED <<cfg, cache>>
        /\ s.slot = r.slot /\ SameConf(p)
    BY <1>14, RedirectEffects
  <2>2. s.slot = Nil
    BY <1>0, <2>1 DEF LocalOK
  <2>3. QuietRequest(p)'
    BY <1>0, <2>1, <2>2 DEF QuietRequest
  <2> QED
    BY <1>2, <1>4, <2>1, <2>3
<1>15. CASE Finish(p)
  <2>1. s = Idle /\ UNCHANGED <<cfg, cache>>
    BY <1>15, FinishEffect
  <2>2. QuietRequest(p)'
    BY <2>1 DEF QuietRequest, Idle
  <2> QED
    BY <1>2, <1>4, <2>1, <2>2
<1> QED
  BY <1>7, <1>8, <1>9, <1>10, <1>11, <1>12, <1>13, <1>14, <1>15 DEF Step

\* With no request under way nothing can be mixed.
LEMMA RestQuiet ==
    ASSUME Typed, AllIdle, UNCHANGED req PROVE AllIdle' /\ \A p \in Request : QuietRequest(p)'
BY DEF Typed, AllIdle, LocalOK, Idle, QuietRequest, At

\* In a quiet program stores happen between requests.
LEMMA ChangeQuiet ==
    ASSUME Typed, QuietCache, NEW a \in Admin, Change(a)
    PROVE  QuietCache' /\ \A p \in Request : QuietRequest(p)'
<1>0. /\ prog[a] \in Using \cup Rebuilding /\ prog[a] # <<>> /\ UNCHANGED req /\ ProgOK(a)
      /\ Store(a) \/ UNCHANGED done
      /\ DOMAIN prog = Admin /\ done \in Done
      /\ \A k \in Slots : cache'[k] \in {cache[k], Nil}
      /\ \A b \in Admin \ {a} : prog'[b] = prog[b] /\ pending'[b] = pending[b]
  BY ChangeKeeps, ChangeMoves, ChangeOthers, StoresDiffer DEF Typed
<1>1. AllIdle /\ \A s \in Slots : Dropped(a, s) => cache[s] = Nil
  BY <1>0 DEF QuietCache
<1>2. /\ \A s \in Slots : Dropped(a, s)' => cache'[s] = Nil
      /\ prog'[a] = <<>> => \A s \in Slots : cache'[s] = Nil
  BY <1>1, ChangeDrops
<1>3. ASSUME NEW b \in Admin, prog'[b] # <<>>, NEW s \in Slots, Dropped(b, s)'
      PROVE  cache'[s] = Nil
  <2>1. CASE b = a
    BY <1>2, <1>3, <2>1
  <2>2. CASE b # a
    <3>1. Dropped(b, s) /\ prog[b] # <<>>
      BY <1>0, <1>3, <2>2 DEF Dropped
    <3> QED
      BY <1>0, <3>1 DEF QuietCache
  <2> QED
    BY <2>1, <2>2
\* Only the store that ends a Rebuild raises what the next request may rely on.
<1>4. prog'[a] = <<>> \/ done'.fields = done.fields
  <2>1. CASE Store(a) /\ prog[a] \in {U4, R5}
    BY <1>0, <2>1, StoreNext
  <2>2. CASE Store(a) /\ prog[a] \notin {U4, R5}
    BY <1>0, <2>2, StoreMoves DEF Using, Rebuilding
  <2> QED
    BY <1>0, <2>1, <2>2
<1>5. \A s \in Slots : cache'[s] # Nil => cache'[s].handler >= done'.fields[FieldOf[s]]
  BY <1>0, <1>2, <1>4 DEF QuietCache
<1>6. AllIdle' /\ \A p \in Request : QuietRequest(p)'
  BY <1>0, <1>1, RestQuiet
<1> QED
  BY <1>3, <1>5, <1>6 DEF QuietCache

\* A call begins with nothing dropped.
LEMMA CallQuiet ==
    ASSUME Typed, QuietCache, AllIdle, NEW a \in Admin, NEW t \in {U1, R1},
           prog' = [prog EXCEPT ![a] = t], UNCHANGED <<pending, cache, req>>,
           done'.fields = done.fields
    PROVE  QuietCache' /\ \A p \in Request : QuietRequest(p)'
<1>1. prog'[a] = t /\ \A b \in Admin \ {a} : prog'[b] = prog[b]
  BY DEF Typed
<1>2. t \notin {U2, U3, U4, R4, R5, <<>>}
  <2>1. U1 \notin {U2, U3, U4} /\ R1 \notin {R4, R5}
    BY UseStores, RebuildStores
  <2>2. U1 \notin {R4, R5, <<>>} /\ R1 \notin {U2, U3, U4, <<>>}
    BY StoresDiffer DEF Using, Rebuilding
  <2> QED
    BY <2>1, <2>2
<1>3. \A s \in Slots : ~ Dropped(a, s)'
  BY <1>1, <1>2 DEF Dropped
<1>4. ASSUME NEW b \in Admin \ {a}, prog'[b] # <<>>, NEW s \in Slots, Dropped(b, s)'
      PROVE  cache'[s] = Nil
  <2>1. Dropped(b, s) /\ prog[b] # <<>>
    BY <1>1, <1>4 DEF Dropped
  <2> QED
    BY <2>1 DEF QuietCache
<1> QED
  BY <1>3, <1>4, RestQuiet DEF QuietCache

\* Every step keeps a quiet program exact.
LEMMA QuietStep == Typed /\ ConfigSince /\ QuietSince /\ [Next]_vars => QuietSince'
<1> SUFFICES ASSUME Typed, ConfigSince, QuietSince, [Next]_vars, overlap' = {}
             PROVE  QuietCache' /\ \A p \in Request : QuietRequest(p)'
  BY DEF QuietSince
<1>1. /\ overlap = {} /\ QuietCache /\ FieldsSince
      /\ \A p \in Request : QuietRequest(p) /\ CopySince(p)
  BY OverlapStays DEF QuietSince, ConfigSince
<1>2. ASSUME NEW p \in Request, Arrive(p) \/ Step(p)
      PROVE  QuietCache' /\ \A q \in Request : QuietRequest(q)'
  BY <1>1, <1>2, RequestQuiet
<1>3. ASSUME NEW a \in Admin, NEW k \in 0..1, Use(a, k)
      PROVE  QuietCache' /\ \A p \in Request : QuietRequest(p)'
  <2>1. AllIdle /\ prog' = [prog EXCEPT ![a] = U1] /\ UNCHANGED <<pending, cache, req>>
    BY <1>1, <1>3 DEF Use, MayCall, AllIdle, U1
  <2>2. done'.fields = done.fields
    BY <1>3 DEF Use, Typed, Done
  <2> QED
    BY <1>1, <2>1, <2>2, CallQuiet
<1>4. ASSUME NEW a \in Admin, Rebuild(a)
      PROVE  QuietCache' /\ \A p \in Request : QuietRequest(p)'
  <2>1. AllIdle /\ prog' = [prog EXCEPT ![a] = R1] /\ UNCHANGED <<pending, cache, req>>
    BY <1>1, <1>4 DEF Rebuild, MayCall, AllIdle, R1, shared
  <2>2. done'.fields = done.fields
    BY <1>4 DEF Rebuild, Typed, Done
  <2> QED
    BY <1>1, <2>1, <2>2, CallQuiet
<1>5. CASE /\ UNCHANGED <<cfg, cache, req>> /\ UNCHANGED <<prog, pending, done>>
  BY <1>1, <1>5 DEF QuietCache, AllIdle, QuietRequest, At, Redirecting, Dropped
<1>6. ASSUME NEW a \in Admin, Pre(a) PROVE QuietCache' /\ \A p \in Request : QuietRequest(p)'
  BY <1>5, <1>6 DEF Pre, admin
<1>7. ASSUME NEW f \in Fields, Assign(f)
      PROVE  QuietCache' /\ \A p \in Request : QuietRequest(p)'
  BY <1>5, <1>7 DEF Assign, admin
<1>8. CASE UNCHANGED vars
  BY <1>5, <1>8 DEF vars
<1> QED
  BY <1>1, <1>2, <1>3, <1>4, <1>6, <1>7, <1>8, ChangeQuiet DEF Next

\* Nothing is cached at the start.
LEMMA QuietInit == Init => QuietSince
<1> SUFFICES ASSUME Init PROVE QuietCache /\ \A p \in Request : QuietRequest(p)
  BY DEF QuietSince
<1>1. QuietCache
  BY DEF Init, QuietCache
<1> QED
  BY <1>1 DEF Init, QuietRequest, Idle

\* A program that reconfigures only between requests is served exactly: Rebuild takes
\* effect with the next request, and no request mixes two configurations.
THEOREM QuietProgramsExact == Spec => []QuietExact
<1>1. QuietSince => QuietExact
  <2> SUFFICES ASSUME QuietSince, overlap = {} PROVE RebuildTakesEffect /\ OneSnapshot
    BY DEF QuietExact
  <2> QED
    BY DEF QuietSince, QuietRequest, RebuildTakesEffect, OneSnapshot
<1> QED
  BY <1>1, AlwaysTyped, ConfigInit, ConfigStep, QuietInit, QuietStep, PTL DEF Spec
=============================================================================
