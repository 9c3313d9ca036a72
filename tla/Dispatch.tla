------------------------------ MODULE Dispatch ------------------------------
(***************************************************************************)
(* Mux.dispatch (mux.go): one request through a Mux and the Muxes mounted  *)
(* below it, while routes are still being registered.                      *)
(*                                                                         *)
(* Paths are sequences of bytes, percent escapes included, because Mount   *)
(* computes with byte lengths and with the decoded and the encoded form of *)
(* one path at a time.  A tree is the set of its routes: what getValue     *)
(* finds in it, and the trailing-slash hint it gives for route sets like   *)
(* the ones used here, are RouteContract!LookupCorrect and TsrHinted.      *)
(* CaseInsensitive is off.  CleanPath or StripSlashes may run before       *)
(* routing.  A client follows a redirect once, or retries with a method    *)
(* that an Allow header names.                                             *)
(***************************************************************************)
EXTENDS Naturals, Sequences, FiniteSets, SequencesExt

CONSTANTS
    Slash, Dot, Percent,     \* the bytes the code looks at
    Param, CatchAll,         \* the pattern elements ":name" and "*name"
    Hex,                     \* what the two bytes after a '%' stand for
    Muxes,                   \* 1 is the one the server calls
    Routes,                  \* [Muxes -> the routes that may be registered on it]
    Starts,                  \* the sets of routes registered before serving begins
    Configs,                 \* the configurations of the Muxes
    Methods, Urls            \* what clients send; "/"-rooted raw paths

ASSUME DispatchAssumption ==
    /\ 1 \in Muxes
    /\ \A s \in Starts : \A m \in Muxes : s[m] \subseteq Routes[m]

VARIABLES
    cfg,      \* each Mux's muxConfig
    trees,    \* each Mux's treesPtr: the routes published so far
    req,      \* the request being dispatched, in the Mux it has reached
    answer,   \* its response
    since     \* what was registered since the client's first request: routes, mounts

vars == <<cfg, trees, req, answer, since>>

-----------------------------------------------------------------------------
(* Paths: net/url and path.Clean.                                          *)

Upto(s, n) == SubSeq(s, 1, n)
From(s, n) == SubSeq(s, n, Len(s))
SegmentEnd(q) == LET S == {k \in 1..Len(q) : q[k] = Slash}
                 IN  IF S = {} THEN Len(q) ELSE (CHOOSE k \in S : \A j \in S : k <= j) - 1

\* url.PathUnescape.
RECURSIVE Unescape(_)
Unescape(q) ==
    IF q = <<>> THEN <<>>
    ELSE IF q[1] = Percent THEN <<Hex[<<q[2], q[3]>>]>> \o Unescape(From(q, 4))
    ELSE <<q[1]>> \o Unescape(Tail(q))

\* url.URL as net/http parses it: RawPath is kept only when it is not the default
\* encoding of Path, which none of the decoded bytes here needs.
UrlPath(raw) == Unescape(raw)
UrlRawPath(raw) == IF Unescape(raw) = raw THEN <<>> ELSE raw

\* The segments of a rooted path.
RECURSIVE Segments(_)
Segments(q) ==
    IF q = <<>> THEN <<>>
    ELSE LET e == SegmentEnd(Tail(q)) IN <<Upto(Tail(q), e)>> \o Segments(From(q, e + 2))

Rooted(segs) == IF segs = <<>> THEN <<Slash>>
                ELSE FlattenSeq([k \in 1..Len(segs) |-> <<Slash>> \o segs[k]])

\* path.Clean of a rooted path.
Clean(q) ==
    LET step(kept, seg) == CASE seg \in {<<>>, <<Dot>>} -> kept
                             [] seg = <<Dot, Dot>> -> IF kept = <<>> THEN kept ELSE Front(kept)
                             [] OTHER -> Append(kept, seg)
    IN  Rooted(FoldLeft(step, <<>>, Segments(q)))

Toggled(q) == IF Len(q) > 1 /\ Last(q) = Slash THEN Front(q) ELSE Append(q, Slash)

-----------------------------------------------------------------------------
(* Lookup: the contract of getValue on a set of routes.                     *)

\* The values captured when pattern p matches path q: at most one sequence.
RECURSIVE Captures(_, _)
Captures(p, q) ==
    IF p = <<>> \/ q = <<>> THEN IF p = q THEN {<<>>} ELSE {}
    ELSE IF Len(p) = 2 /\ p[2] = CatchAll THEN IF q[1] = Slash THEN {<<q>>} ELSE {}
    ELSE IF p[1] = Param
         THEN LET e == SegmentEnd(q)
              IN  IF e = 0 THEN {}
                  ELSE {<<Upto(q, e)>> \o s : s \in Captures(Tail(p), From(q, e + 1))}
    ELSE IF p[1] = q[1] THEN Captures(Tail(p), Tail(q)) ELSE {}

\* At the first place two patterns differ, the literal outranks the wildcard.
Outranks(p, q) ==
    \E k \in 1..Len(p) : /\ k <= Len(q) /\ Upto(p, k - 1) = Upto(q, k - 1) /\ p[k] # q[k]
                         /\ p[k] \notin {Param, CatchAll} /\ q[k] \in {Param, CatchAll}

Of(R, method) == {r \in R : r.method = method}
Matching(R, q) == {r \in R : Captures(r.pattern, q) # {}}
Found(R, q) == {r \in Matching(R, q) : \A o \in Matching(R, q) : ~ Outranks(o.pattern, r.pattern)}

\* The trailing-slash hint: the toggled path has a handler; but a catch-all right
\* after a parameter gives none (RouteContract!TsrHinted).
AfterParam(p) == Len(p) > 2 /\ Last(p) = CatchAll /\ p[Len(p) - 2] = Param
tsr(R, q) ==
    /\ Matching(R, q) = {}
    /\ Matching({r \in R : Last(q) = Slash \/ ~ AfterParam(r.pattern)}, Toggled(q)) # {}

hasHandler(R, q) == Matching(R, q) # {}

-----------------------------------------------------------------------------
(* Redirect targets.                                                       *)

\* cleanedPath: path.Clean(q), when that changes q and has a handler.
cleanedPath(R, q) == {c \in {Clean(q)} : c # q /\ hasHandler(R, c)}

\* The target as the client gets it: the mount prefix in front (mountPrefixFrom),
\* cleaned with its trailing '/' restored (writeRedirect).  A target that begins
\* with "//" is left to http.Redirect, which leaves it alone.
writeRedirect(target) ==
    IF Len(target) > 1 /\ target[2] = Slash THEN target
    ELSE IF Last(target) = Slash /\ Last(Clean(target)) # Slash THEN Append(Clean(target), Slash)
    ELSE Clean(target)

resolveRedirectCode(m, method) ==
    CASE cfg[m].redirectCode # 0 -> cfg[m].redirectCode
      [] cfg[m].redirectCode = 0 /\ method \in {"GET", "HEAD"} -> 301
      [] OTHER -> 307

-----------------------------------------------------------------------------
(* Mount.                                                                  *)

\* rawPathRemainder: what is left of raw once its leading segments, decoded one by
\* one, have spelled out mp; a set of at most one path.
RECURSIVE rawPathRemainder(_, _)
rawPathRemainder(mp, raw) ==
    IF mp = <<>> THEN {raw}
    ELSE IF raw = <<>> \/ raw[1] # Slash THEN {}
    ELSE LET e == SegmentEnd(Tail(mp))
             f == SegmentEnd(Tail(raw))
         IN  IF Unescape(Upto(Tail(raw), f)) # Upto(Tail(mp), e) THEN {}
             ELSE rawPathRemainder(From(mp, e + 2), From(raw, f + 2))

\* The RawPath below a static prefix: the registered text is cut off, and nothing
\* is kept when that does not leave a rooted path.
TrimStatic(prefix, raw) ==
    IF \/ prefix = <<>> \/ ~ IsPrefix(prefix, raw)
       \/ Len(raw) > Len(prefix) /\ raw[Len(prefix) + 1] # Slash
    THEN <<>> ELSE From(raw, Len(prefix) + 1)

\* mountAt's handler: the request the mounted Mux receives.  suffix is the captured
\* catch-all; its length is subtracted from URL.Path to get the matched prefix.
MountRequest(r, suffix) ==
    LET prefix == Upto(r.pattern, Len(r.pattern) - 2)
        matched == IF Len(suffix) <= Len(req.path)
                   THEN Upto(req.path, Len(req.path) - Len(suffix)) ELSE req.path
        remainder == rawPathRemainder(matched, req.rawPath)
        raw == CASE req.rawPath = <<>> -> <<>>
                 [] req.rawPath # <<>> /\ Param \in ToSet(prefix) ->
                      IF remainder = {} THEN <<>> ELSE CHOOSE x \in remainder : TRUE
                 [] OTHER -> TrimStatic(prefix, req.rawPath)
    IN  [req EXCEPT !.mux = r.to, !.path = suffix, !.rawPath = raw,
                    !.prefix = @ \o matched, !.via = Append(@, r.to)]

-----------------------------------------------------------------------------
(* The path middleware that Pre runs before dispatch: on Path and RawPath.  *)

CleanPath(u) ==
    [path |-> Clean(u.path),
     rawPath |-> IF Clean(u.rawPath) # u.rawPath \/ Unescape(u.rawPath) # Clean(u.path)
                 THEN <<>> ELSE u.rawPath]

Stripped(q) == IF \A k \in 1..Len(q) : q[k] = Slash THEN <<Slash>>
               ELSE Upto(q, CHOOSE k \in 1..Len(q) : q[k] # Slash /\ \A j \in (k + 1)..Len(q) : q[j] = Slash)

\* Mutant: only the literal '/' bytes are removed from RawPath.
StripLiterals(rp, n) == IF n = 0 THEN rp ELSE Stripped(rp)

\* stripTrailingPathSeparators: up to n separators, each a '/' or an encoded one.
RECURSIVE stripTrailingPathSeparators(_, _)
stripTrailingPathSeparators(rp, n) ==
    LET k == Len(rp)
    IN  CASE n = 0 \/ k <= 1 -> rp
          [] n > 0 /\ k > 1 /\ rp[k] = Slash -> stripTrailingPathSeparators(Front(rp), n - 1)
          [] n > 0 /\ k > 2 /\ rp[k - 2] = Percent /\ Hex[<<rp[k - 1], rp[k]>>] = Slash ->
               stripTrailingPathSeparators(Upto(rp, k - 3), n - 1)
          [] OTHER -> rp

StripSlashes(u) ==
    [path |-> Stripped(u.path),
     rawPath |-> stripTrailingPathSeparators(u.rawPath, Len(u.path) - Len(Stripped(u.path)))]

Pre(u) == CASE cfg[1].pre = "none" -> u
            [] cfg[1].pre = "CleanPath" -> CleanPath(u)
            [] cfg[1].pre = "StripSlashes" -> StripSlashes(u)

-----------------------------------------------------------------------------
(* Requests.                                                               *)

NoAnswer == [kind |-> "none", code |-> 0, location |-> <<>>, allow |-> {}]
Request(url, method, follows, past) ==
    LET u == Pre([path |-> UrlPath(url), rawPath |-> UrlRawPath(url)])
    IN  [pc |-> "dispatch", method |-> method, url |-> url, mux |-> 1, path |-> u.path,
         rawPath |-> u.rawPath, routed |-> u.path, prefix |-> <<>>, via |-> <<1>>,
         follows |-> follows, past |-> past, offered |-> {}, loaded |-> {}]

Init == /\ cfg \in Configs
        /\ trees \in Starts
        /\ req = [pc |-> "idle"]
        /\ answer = NoAnswer
        /\ since = {}

\* The client's first request.
Send == /\ req.pc = "idle"
        /\ \E url \in Urls, method \in Methods : req' = Request(url, method, "nothing", 0)
        /\ answer' = NoAnswer
        /\ UNCHANGED <<cfg, trees, since>>

\* Handle or Mount publishes one more route.
Register ==
    /\ \E k \in Muxes : \E r \in Routes[k] \ trees[k] :
          /\ trees' = [trees EXCEPT ![k] = @ \cup {r}]
          /\ since' = IF req.pc = "idle" THEN {} ELSE since \cup {IF r.to = 0 THEN "route" ELSE "mount"}
    /\ UNCHANGED <<cfg, req, answer>>

m == req.mux
urlPath == IF cfg[m].useRawPath /\ req.rawPath # <<>> THEN req.rawPath ELSE req.path

\* A captured value, as PathParam returns it.
Value(v) == IF cfg[m].unescapePathValues /\ cfg[m].useRawPath THEN Unescape(v) ELSE v

Answer(kind, code, location, allow) ==
    /\ answer' = [NoAnswer EXCEPT !.kind = kind, !.code = code, !.location = location,
                                  !.allow = allow]
    /\ req' = [req EXCEPT !.pc = "done"]
    /\ UNCHANGED <<cfg, trees, since>>

\* Mutant: the mount prefix is not put in front.
RedirectUnprefixed(target) ==
    Answer("redirect", resolveRedirectCode(m, req.method), writeRedirect(target), {})

\* serveRedirect of the target, in the client's URL space (mountPrefixFrom).
Redirect(target) ==
    Answer(IF writeRedirect(req.prefix \o target) = req.prefix \o target
           THEN "redirect" ELSE "redirectCleaned",
           resolveRedirectCode(m, req.method), writeRedirect(req.prefix \o target), {})

\* A route of the method's own tree serves the request.
ServeOwn == Answer("handled", 200, <<>>, {})

\* A mounted Mux serves it.
ServeMount(r, q) ==
    /\ req' = MountRequest(r, Value(Last(CHOOSE s \in Captures(r.pattern, q) : TRUE)))
    /\ UNCHANGED <<cfg, trees, answer, since>>

\* Nothing found: what is left is the 405, OPTIONS or 404 answer.
Miss == /\ req' = [req EXCEPT !.pc = "allowed", !.loaded = trees[m]]
        /\ UNCHANGED <<cfg, trees, answer, since>>

\* dispatch: the method's own tree first, its redirects before the "*" tree, and the
\* redirect to a mount last.  treesPtr is loaded once for both trees.
Lookup ==
    /\ req.pc = "dispatch"
    /\ LET q == urlPath
           own == Of(trees[m], req.method)
           star == Of(trees[m], "*")
           found == Found(own, q)
           mounts == Found(star, q)
           mayRedirect == req.method # "CONNECT" /\ q # <<Slash>>
           ownRedirects == own # {} /\ found = {} /\ mayRedirect
           slash == ownRedirects /\ tsr(own, q) /\ cfg[m].redirectTrailingSlash
           fixed == ownRedirects /\ cfg[m].redirectFixedPath /\ cleanedPath(own, q) # {}
           missed == found = {} /\ ~ slash /\ ~ fixed
           mountSlash == mayRedirect /\ tsr(star, q) /\ cfg[m].redirectTrailingSlash
       IN  \/ found # {} /\ ServeOwn
           \/ slash /\ Redirect(Toggled(q))
           \/ ~ slash /\ fixed /\ Redirect(Clean(q))
           \/ missed /\ \E r \in mounts : ServeMount(r, q)
           \/ missed /\ mounts = {} /\ mountSlash /\ Redirect(Toggled(q))
           \/ missed /\ mounts = {} /\ ~ mountSlash /\ Miss

\* The Allow value for a set of methods: OPTIONS is in every one that is not empty.
allowTable(S) == IF S = {} THEN {} ELSE S \cup {"OPTIONS"}

\* Mutant: the path is not looked up.
AllowedAnywhere(R, q, method) ==
    allowTable({x \in Methods \ {"OPTIONS", method} : Of(R, x) # {}})

\* allowed: the other methods with a handler at the path, routes for OPTIONS left aside.
allowed(R, q, method) ==
    allowTable({x \in Methods \ {"OPTIONS", method} : hasHandler(Of(R, x), q)})

\* allowed loads treesPtr again.
Allowed ==
    /\ req.pc = "allowed"
    /\ LET S == allowed(trees[m], urlPath, req.method)
       IN  IF req.method = "OPTIONS" /\ cfg[m].handleOPTIONS
           THEN IF S # {} THEN Answer("options", 204, <<>>, S) ELSE Answer("404", 404, <<>>, {})
           ELSE IF cfg[m].handleMethodNotAllowed /\ S # {}
                THEN Answer("405", 405, <<>>, S) ELSE Answer("404", 404, <<>>, {})

\* The client follows a redirect, with the same method.
Follow == /\ req.pc = "done" /\ req.follows = "nothing"
          /\ answer.kind \in {"redirect", "redirectCleaned"}
          /\ req' = Request(answer.location, req.method, answer.kind, Len(req.via))
          /\ answer' = NoAnswer
          /\ UNCHANGED <<cfg, trees, since>>

\* The client retries with a method the answer allows.
Retry == /\ req.pc = "done" /\ req.follows = "nothing"
         /\ \E x \in answer.allow :
               req' = [Request(req.url, x, "allow", 0) EXCEPT !.offered = answer.allow]
         /\ answer' = NoAnswer
         /\ UNCHANGED <<cfg, trees, since>>

Next == \/ Send \/ Register
        \/ Lookup \/ Allowed
        \/ Follow \/ Retry

Spec == Init /\ [][Next]_vars

-----------------------------------------------------------------------------
(* Properties.                                                             *)

Active == req.pc # "idle"

\* Path and RawPath stay two spellings of one path, and a mounted Mux is given the
\* rest of it: through every nested mount the composed prefix and URL.Path spell out
\* the path that was routed, and RawPath is empty or a rooted path that decodes to
\* Path, whatever the client encoded (mountAt, rawPathRemainder, CleanPath,
\* StripSlashes).
MountUrlExact ==
    Active => /\ req.prefix \o req.path = req.routed
              /\ \/ req.rawPath = <<>>
                 \/ req.rawPath[1] = Slash /\ Unescape(req.rawPath) = req.path

\* A redirect leads somewhere: followed, and with nothing registered meanwhile, it
\* is served, or passed on by the Mux that issued it to one mounted there.  It never
\* ends in 404 or 405 at that Mux or above, nor in another redirect there.  A target
\* that writeRedirect had to clean (a "." or ".." captured as a parameter) is not held
\* to this, nor is a Mux whose Pre middleware takes the trailing '/' off again, or that
\* routes by the encoded path, of which a Location keeps the decoded spelling.
RedirectLands ==
    /\ req.pc = "done" /\ since = {} /\ req.follows = "redirect"
    /\ cfg[1].pre = "none" /\ ~ cfg[1].useRawPath
    => answer.kind = "handled" \/ Len(req.via) > req.past

\* What Allow says is true of the next request, even while routes are being added,
\* unless a mount was put in the way.  A retry with a method of it is served or
\* redirected; but OPTIONS, which allowTable adds whether there is a route for it or
\* not, may be answered with an Allow that has lost nothing, and with HandleOPTIONS
\* off that answer is a 405, though Allow named the method.
AllowHonoured ==
    req.pc = "done" /\ req.follows = "allow" /\ "mount" \notin since =>
        \/ answer.kind \in {"handled", "redirect", "redirectCleaned"}
        \/ /\ req.method = "OPTIONS" /\ req.offered \subseteq answer.allow
           /\ answer.kind = IF cfg[m].handleOPTIONS THEN "options" ELSE "405"

\* A redirect issued below a mount stays below it (specification/groups.md 31: a
\* Location that omits the mount prefix "sends the client outside the mount").
StaysInMount ==
    req.pc = "done" /\ answer.kind = "redirect" /\ Len(req.via) > 1 =>
        \E r \in Of(trees[1], "*") : r.to = req.via[2] /\ Captures(r.pattern, answer.location) # {}

\* A request is answered from one set of routes ("in-flight requests keep using the
\* array snapshot they already loaded", specification/compatibility.md).
AnswersSnapshot ==
    req.pc = "done" /\ answer.kind \in {"405", "options", "404"} =>
        answer.allow = IF answer.kind = "404" /\ ~ cfg[m].handleMethodNotAllowed
                       THEN {} ELSE allowed(req.loaded, urlPath, req.method)
=============================================================================
