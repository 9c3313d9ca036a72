------------------------------- MODULE Gates -------------------------------
(***************************************************************************)
(* The middleware that runs before a handler and decides about a request   *)
(* or labels it (src/middleware): RequestID, RealIP, SetHeader, NoCache,   *)
(* CORS and JWTAuth.  A program has put some of them in a chain; requests  *)
(* run it concurrently and share RequestID's pooled random bytes, and      *)
(* JWTAuth's memo of the last accepted header and its pooled hashes.  What *)
(* they must not share is the memory behind their response headers.        *)
(*                                                                         *)
(* Header text, keys and digests are values that are equal or not: a       *)
(* signature is what was signed, with which key and algorithm.             *)
(***************************************************************************)
EXTENDS Integers, Sequences, FiniteSets, SequencesExt

CONSTANTS
    Request,        \* the goroutines that serve
    Chains,         \* the middleware a program may have registered, with options
    Clients(_),     \* what a client may send to a chain
    Headers,        \* JOSE header segments: whether they decode, alg and crit
    Times,          \* the instants at which claims are checked
    PerBuf,         \* ids served by one buffer of random bytes (256 in the code)
    MaxHops,        \* maxXFFHops (30 in the code)
    MaxIds,         \* bound: ids generated
    MaxWrites,      \* bound: what one handler does to its response headers
    Hoisted         \* the owner of memory that outlives a request

ASSUME GatesAssumption ==
    /\ PerBuf \in Nat \ {0} /\ MaxHops \in Nat \ {0} /\ MaxIds \in Nat /\ MaxWrites \in Nat
    /\ Hoisted \notin Request /\ Times \subseteq Nat

\* A chain has one JWTAuth and one RealIP at most.
ASSUME ChainsAssumption ==
    \A c \in Chains :
       /\ Len(c) \in Nat
       /\ \A i, j \in 1..Len(c) :
             c[i].mw = c[j].mw /\ c[i].mw \in {"JWTAuth", "RealIP"} => i = j
       /\ \A k \in 1..Len(c) :
             /\ c[k].mw = "SetHeader" => c[k].key \in STRING /\ c[k].value \in STRING
             /\ c[k].mw = "JWTAuth" => c[k].skew \in Nat

VARIABLES
    chain,          \* the middleware, outermost first
    pool,           \* requestIDBufPool: buffers, each a batch of random bytes and an offset
    batches,        \* how often a buffer was refilled
    served,         \* history: the random bytes that became ids
    headerMemo,     \* *headerMemo, or NoMemo
    hashes,         \* jwtHMACPool per algorithm: what its free hash has absorbed, or NoHash
    heap,           \* string arrays, per owner
    want,           \* history: each request's response headers as values
    req             \* per Request, its locals

vars == <<chain, pool, batches, served, headerMemo, hashes, heap, want, req>>
shared == <<pool, batches, served, headerMemo, hashes>>

-----------------------------------------------------------------------------
(* JWTAuth's construction.                                                 *)

HMACs == {"HS256", "HS384", "HS512"}
RSAs == {"RS256", "RS384", "RS512"}
Curve == [ES256 |-> "P256", ES384 |-> "P384", ES512 |-> "P521"]
keySize == [ES256 |-> 32, ES384 |-> 48, ES512 |-> 66]

\* What a client sends as a token: nothing, what is not a JWT, or a JWT whose
\* signature has a size if its algorithm is one of those that fix it.
TokenOK(t) ==
    t.form = "jwt" =>
       /\ t.sig = [alg |-> t.sig.alg, key |-> t.sig.key, over |-> t.sig.over, size |-> t.sig.size]
       /\ t.sig.alg \notin DOMAIN keySize => t.sig.size = 0
       /\ t.claims.exp \in Int /\ t.claims.nbf \in Int /\ t.claims.iat \in Int

ASSUME ClientsAssumption ==
    \A c \in Chains : \A in \in Clients(c) :
       in.origin \in STRING /\ in.xff \in Seq(STRING) /\ TokenOK(in.token)

\* JWTAuth returns: there is an algorithm, each is known and has its key material.
Constructs(o) ==
    /\ o.algs # {}
    /\ \A alg \in o.algs : \/ alg \in HMACs /\ o.secret # "nil"
                           \/ alg \in RSAs /\ o.public = "RSA"
                           \/ alg \in DOMAIN Curve /\ o.public = Curve[alg]

Of(name) == {k \in 1..Len(chain) : chain[k].mw = name}

NoMemo == [hdr |-> "none", alg |-> "none"]
NoHash == <<"none">>
Never == -1                        \* the claims have not been looked at
Idle == [pc |-> "idle"]

Init == /\ chain \in {c \in Chains : \A k \in 1..Len(c) : c[k].mw = "JWTAuth" => Constructs(c[k])}
        /\ pool = {} /\ batches = 0 /\ served = <<>>
        /\ headerMemo = NoMemo
        /\ hashes = [alg \in HMACs |-> NoHash]
        /\ heap = [x \in Request \cup {Hoisted} |-> <<>>]
        /\ want = [r \in Request |-> <<>>]
        /\ req = [r \in Request |-> Idle]

-----------------------------------------------------------------------------
(* A request, and the frames of its chain.                                  *)

Arrive(r) ==
    /\ req[r].pc = "idle"
    /\ Of("RequestID") # {} =>
          Len(served) + Cardinality({s \in Request : req[s].pc # "idle"}) < MaxIds
    /\ \E in \in Clients(chain) :
          req' = [req EXCEPT ![r] = [pc |-> "frame", at |-> 1, in |-> in, addr |-> in.peer,
                                     id |-> <<>>, buf |-> <<>>, alg |-> "none", now |-> Never,
                                     verdict |-> "none", hdr |-> <<>>, writes |-> 0]]
    /\ UNCHANGED <<chain, shared, heap, want>>

In(r, name) == req[r].pc = "frame" /\ req[r].at <= Len(chain) /\ chain[req[r].at].mw = name
opts(r) == chain[req[r].at]

\* A request that is passed on with next.ServeHTTP, and one that is answered here.
Passed(q) == [q EXCEPT !.pc = "frame", !.at = @ + 1]
Answered(q) == [q EXCEPT !.pc = "done"]

-----------------------------------------------------------------------------
(* Response headers: a map from keys to slices of string arrays.            *)

Response(r) == [heap |-> heap, hdr |-> req[r].hdr, want |-> want[r]]
Respond(r, p, q) == /\ heap' = p.heap
                    /\ want' = [want EXCEPT ![r] = p.want]
                    /\ req' = [req EXCEPT ![r] = [q EXCEPT !.hdr = p.hdr]]
                    /\ UNCHANGED <<chain, shared>>

Slice(own, arr, i) == [own |-> own, arr |-> arr, at |-> i, len |-> 1, cap |-> 1]
Text(p, s) == SubSeq(p.heap[s.own][s.arr], s.at, s.at + s.len - 1)

\* f with the keys ks set, the i-th to g(i).
Set(f, ks, g(_)) == [x \in DOMAIN f \cup ToSet(ks) |->
                       IF x \in ToSet(ks) THEN g(CHOOSE i \in 1..Len(ks) : ks[i] = x) ELSE f[x]]

\* Mutant: the array is made once, when the middleware is constructed.
SetHoisted(p, r, ks, vs) ==
    [heap |-> [p.heap EXCEPT ![Hoisted] = IF @ = <<>> THEN <<vs>> ELSE @],
     hdr |-> Set(p.hdr, ks, LAMBDA i : Slice(Hoisted, 1, i)),
     want |-> Set(p.want, ks, LAMBDA i : <<vs[i]>>)]

\* A new array backs the values of all the headers that a middleware sets, each
\* a slice of length and capacity 1.
SetFresh(p, r, ks, vs) ==
    [heap |-> [p.heap EXCEPT ![r] = Append(@, vs)],
     hdr |-> Set(p.hdr, ks, LAMBDA i : Slice(r, Len(p.heap[r]) + 1, i)),
     want |-> Set(p.want, ks, LAMBDA i : <<vs[i]>>)]

\* append(h[k], v): into the array if there is room in it, else into one twice as long.
AppendValue(p, r, k, v) ==
    LET s == p.hdr[k]
    IN  [heap |-> IF s.len < s.cap
                  THEN [p.heap EXCEPT ![s.own][s.arr][s.at + s.len] = v]
                  ELSE [p.heap EXCEPT ![r] =
                          Append(@, [i \in 1..(2 * s.len) |-> IF i <= s.len THEN Text(p, s)[i]
                                                             ELSE IF i = s.len + 1 THEN v ELSE ""])],
         hdr |-> [p.hdr EXCEPT ![k] = IF s.len < s.cap THEN [s EXCEPT !.len = s.len + 1]
                                      ELSE [own |-> r, arr |-> Len(p.heap[r]) + 1, at |-> 1,
                                            len |-> s.len + 1, cap |-> 2 * s.len]],
         want |-> [p.want EXCEPT ![k] = Append(@, v)]]

\* w.Header()[k][0] = v.
WriteValue(p, k, v) ==
    [p EXCEPT !.heap[p.hdr[k].own][p.hdr[k].arr][p.hdr[k].at] = v, !.want[k][1] = v]

SetHeader(r) ==
    /\ In(r, "SetHeader")
    /\ Respond(r, SetFresh(Response(r), r, <<opts(r).key>>, <<opts(r).value>>), Passed(req[r]))

NoCache(r) ==
    /\ In(r, "NoCache")
    /\ Respond(r, SetFresh(Response(r), r, <<"Cache-Control", "Pragma", "Expires">>,
                           <<"no-store", "no-cache", "0">>), Passed(req[r]))

Allow(what, on) == IF on THEN <<what>> ELSE <<>>

\* The headers of an allowed origin's response; the last three answer a preflight.
CORSKeys(o, preflight) ==
    <<"Origin">> \o Allow("Credentials", o.credentials) \o Allow("Expose", o.exposed)
    \o Allow("Methods", preflight /\ o.methods) \o Allow("MaxAge", preflight /\ o.maxAge)

\* CORS: Vary on every response, then the refusals, then the headers.  Vary shares
\* the array of the others unless there is one already.
CORS(r) ==
    /\ In(r, "CORS")
    /\ LET o == opts(r)
           in == req[r].in
           p == Response(r)
           ok == in.origin # "invalid" /\ (o.all \/ in.origin \in o.origins)
           ks == IF in.origin # "none" /\ ok THEN CORSKeys(o, in.method = "OPTIONS") ELSE <<>>
           vs == [i \in 1..Len(ks) |-> IF ks[i] = "Origin" /\ ~ o.all THEN in.origin ELSE "*"]
           answer == CASE "Vary" \notin DOMAIN p.hdr -> SetFresh(p, r, <<"Vary">> \o ks, <<"Origin">> \o vs)
                       [] "Vary" \in DOMAIN p.hdr /\ "Origin" \in ToSet(Text(p, p.hdr["Vary"])) ->
                            SetFresh(p, r, ks, vs)
                       [] OTHER -> SetFresh(AppendValue(p, r, "Vary", "Origin"), r, ks, vs)
       IN  Respond(r, answer, IF in.origin = "none" \/ (ok /\ in.method # "OPTIONS")
                              THEN Passed(req[r]) ELSE Answered(req[r]))

\* The handler adds to a header of the response, or writes the first value in place.
Handler(r) ==
    /\ req[r].pc = "frame" /\ req[r].at > Len(chain) /\ req[r].writes < MaxWrites
    /\ \E k \in DOMAIN req[r].hdr :
          \E p \in {AppendValue(Response(r), r, k, "h"), WriteValue(Response(r), k, "h")} :
             Respond(r, p, [req[r] EXCEPT !.writes = @ + 1])

Finish(r) ==
    /\ req[r].pc = "done" \/ (req[r].pc = "frame" /\ req[r].at > Len(chain))
    /\ req' = [req EXCEPT ![r] = Idle]
    /\ heap' = [heap EXCEPT ![r] = <<>>]
    /\ want' = [want EXCEPT ![r] = <<>>]
    /\ UNCHANGED <<chain, shared>>

-----------------------------------------------------------------------------
(* RequestID: random bytes are read for PerBuf ids at a time, into buffers  *)
(* that requests take from a pool and put back.                             *)

\* Mutant: a new buffer looks as if it had just been filled.
NewZeroed == [batch |-> 0, off |-> 0]

newExhaustedRequestIDBuf == [batch |-> 0, off |-> PerBuf]

\* nextRandomID, up to the copy: Get, and a refill of what is used up.
Draw(r) ==
    /\ In(r, "RequestID") /\ ~ req[r].in.validID /\ req[r].buf = <<>>
    /\ \E b \in pool \cup {newExhaustedRequestIDBuf} :
          /\ pool' = pool \ {b}
          /\ IF b.off + 1 > PerBuf
             THEN /\ batches' = batches + 1
                  /\ req' = [req EXCEPT ![r].buf = <<[batch |-> batches + 1, off |-> 0]>>]
             ELSE /\ req' = [req EXCEPT ![r].buf = <<b>>]
                  /\ UNCHANGED batches
    /\ UNCHANGED <<chain, served, headerMemo, hashes, heap, want>>

\* The buffer as it goes back to the pool.
PutBack(b) == [b EXCEPT !.off = @ + 1]

\* The id is copied and the buffer put back; or the client's own id is taken.
RequestID(r) ==
    /\ In(r, "RequestID") /\ (req[r].in.validID \/ req[r].buf # <<>>)
    /\ LET id == IF req[r].in.validID THEN <<>> ELSE <<req[r].buf[1].batch, req[r].buf[1].off>>
           p == SetFresh(Response(r), r, <<"X-Request-Id">>, <<"id">>)
       IN  /\ pool' = pool \cup {PutBack(b) : b \in ToSet(req[r].buf)}
           /\ served' = IF req[r].in.validID THEN served ELSE Append(served, id)
           /\ heap' = p.heap /\ want' = [want EXCEPT ![r] = p.want]
           /\ req' = [req EXCEPT ![r] = [Passed(req[r]) EXCEPT !.hdr = p.hdr, !.id = id, !.buf = <<>>]]
    /\ UNCHANGED <<chain, batches, headerMemo, hashes>>

\* A garbage collection empties sync.Pools.
Collect ==
    /\ \E b \in pool : pool' = pool \ {b}
    /\ UNCHANGED <<chain, batches, served, headerMemo, hashes, heap, want, req>>

-----------------------------------------------------------------------------
(* RealIP.                                                                 *)

Valid(addr) == addr # "bad"
LastHops(xff) == SubSeq(xff, 1 + (IF Len(xff) > MaxHops THEN Len(xff) - MaxHops ELSE 0), Len(xff))

\* The walk from the right: the first hop outside the trusted ranges, or the
\* last valid one met.
Rightmost(hops, trusted) ==
    LET walk[k \in 0..Len(hops)] ==
            IF k = 0 THEN "bad"
            ELSE IF Valid(hops[k]) /\ hops[k] \notin trusted THEN hops[k]
            ELSE IF Valid(hops[k]) /\ ~ Valid(walk[k - 1]) THEN hops[k] ELSE walk[k - 1]
    IN  walk[Len(hops)]

\* Mutant: the walk is not bounded to the last hops.
SelectUnbounded(xff, trusted) == Rightmost(xff, trusted)

\* "bad" stands for no address.
selectXFFRightmost(xff, trusted) ==
    LET hops == LastHops(xff)
        first == SelectInSeq(hops, Valid)
    IN  IF trusted # {} THEN Rightmost(hops, trusted)
        ELSE IF first = 0 THEN "bad" ELSE hops[first]

RealIP(r) ==
    /\ In(r, "RealIP")
    /\ LET in == req[r].in
           trusted == opts(r).trusted
           from == IF in.xff # <<>> THEN selectXFFRightmost(in.xff, trusted) ELSE in.realIP
           kept == (trusted # {} /\ in.peer \notin trusted) \/ ~ Valid(from)
       IN  req' = [req EXCEPT ![r] = [Passed(@) EXCEPT !.addr = IF kept THEN req[r].addr ELSE from]]
    /\ UNCHANGED <<chain, shared, heap, want>>

-----------------------------------------------------------------------------
(* JWTAuth.                                                                *)

Reject(r) == req' = [req EXCEPT ![r] = [Answered(@) EXCEPT !.verdict = "reject"]]

\* Mutant: the memo answers for every header.
HitsAny(hdr) == headerMemo # NoMemo

Hits(hdr) == headerMemo # NoMemo /\ headerMemo.hdr = hdr

\* The token is extracted and cut, and headerMemo loaded.
LoadMemo(r) ==
    /\ In(r, "JWTAuth") /\ req[r].alg = "none"
    /\ IF req[r].in.token.form # "jwt" THEN Reject(r)
       ELSE req' = [req EXCEPT ![r].alg = IF Hits(req[r].in.token.hdr) THEN headerMemo.alg ELSE "decode"]
    /\ UNCHANGED <<chain, shared, heap, want>>

\* decodeJWTHeader after a miss: the accepted header is stored.
Decode(r) ==
    /\ In(r, "JWTAuth") /\ req[r].alg = "decode"
    /\ LET t == req[r].in.token
           h == Headers[t.hdr]
       IN  IF ~ h.decodes \/ h.alg \notin opts(r).algs \/ h.crit
           THEN Reject(r) /\ UNCHANGED headerMemo
           ELSE /\ headerMemo' = [hdr |-> t.hdr, alg |-> h.alg]
                /\ req' = [req EXCEPT ![r].alg = h.alg]
    /\ UNCHANGED <<chain, pool, batches, served, hashes, heap, want>>

Reset(h) == <<>>

\* jwtHMACPool.verify: a free hash, or a new one, is reset and absorbs the message.
VerifyHMAC(r, alg, t) ==
    \E h \in {hashes[alg], <<>>} :
       LET mac == (IF h = NoHash THEN <<>> ELSE Reset(h)) \o <<<<t.hdr, t.claims>>>>
       IN  /\ hashes' = [hashes EXCEPT ![alg] = mac]
           /\ IF t.sig = [alg |-> alg, key |-> opts(r).secret, over |-> mac, size |-> 0]
              THEN req' = [req EXCEPT ![r].pc = "claims"] ELSE Reject(r)

\* rsa.VerifyPKCS1v15 and verifyECDSAJWT; a key of the wrong kind is a panic.
VerifyPublic(r, alg, t) ==
    LET o == opts(r)
        fits == IF alg \in RSAs THEN o.public = "RSA" ELSE o.public # "nil" /\ o.public # "RSA"
        signed == t.sig.alg = alg /\ t.sig.key = o.public /\ t.sig.over = <<<<t.hdr, t.claims>>>>
        sized == alg \in RSAs \/ t.sig.size = 2 * keySize[alg]
    IN  /\ UNCHANGED hashes
        /\ IF ~ fits THEN req' = [req EXCEPT ![r].verdict = "panic", ![r].pc = "done"]
           ELSE IF sized /\ signed THEN req' = [req EXCEPT ![r].pc = "claims"] ELSE Reject(r)

\* The signature is checked before anything of the payload is looked at.
Verify(r) ==
    /\ In(r, "JWTAuth") /\ req[r].alg \notin {"none", "decode"}
    /\ LET t == req[r].in.token
       IN  CASE t.sig.alg = "undecodable" -> Reject(r) /\ UNCHANGED hashes
             [] t.sig.alg # "undecodable" /\ req[r].alg \in HMACs -> VerifyHMAC(r, req[r].alg, t)
             [] OTHER -> VerifyPublic(r, req[r].alg, t)
    /\ UNCHANGED <<chain, pool, batches, served, headerMemo, heap, want>>

\* The payload is refused at time now.
Refused(c, o, now) ==
    \/ ~ c.decodes
    \/ c.exp < 0 \/ c.nbf < 0 \/ c.iat < 0
    \/ o.requireExpiry /\ c.exp = 0
    \/ c.exp # 0 /\ now > c.exp + o.skew
    \/ c.nbf # 0 /\ now + o.skew < c.nbf
    \/ o.issuers # {} /\ c.iss \notin o.issuers
    \/ o.audiences # {} /\ c.aud \cap o.audiences = {}

Claims(r) ==
    /\ req[r].pc = "claims"
    /\ \E now \in Times :
          req' = [req EXCEPT ![r] =
                    IF Refused(@.in.token.claims, opts(r), now)
                    THEN [Answered(@) EXCEPT !.verdict = "reject", !.now = now]
                    ELSE [Passed(@) EXCEPT !.verdict = "accept", !.now = now]]
    /\ UNCHANGED <<chain, shared, heap, want>>

-----------------------------------------------------------------------------
Step(r) == \/ SetHeader(r) \/ NoCache(r) \/ CORS(r) \/ Draw(r) \/ RequestID(r) \/ RealIP(r)
           \/ LoadMemo(r) \/ Decode(r) \/ Verify(r) \/ Claims(r) \/ Handler(r) \/ Finish(r)
Next == Collect \/ \E r \in Request : Arrive(r) \/ Step(r)
Spec == Init /\ [][Next]_vars

-----------------------------------------------------------------------------
(* Properties.                                                             *)

Active(r) == req[r].pc # "idle"

\* No random bytes identify two requests, and none are used that were not read from
\* crypto/rand, however requests pass the buffers around (nextRandomID).
IdsUnique ==
    /\ \A i, j \in 1..Len(served) : served[i] = served[j] => i = j
    /\ \A i \in 1..Len(served) : served[i][1] \in 1..batches

\* The response headers of a request are its own: what a handler adds or writes in
\* place under one key changes no other key and no other request, although several
\* values share an array (CORS, NoCache, SetHeader, RequestID).
HeadersIsolated ==
    \A r \in Request : Active(r) =>
        /\ DOMAIN req[r].hdr = DOMAIN want[r]
        /\ \A k \in DOMAIN want[r] : Text(Response(r), req[r].hdr[k]) = want[r][k]

\* Is token t good for options o at time now?  Said of t alone: its header names an
\* accepted algorithm and no extension, its signature is of that algorithm, by the
\* key configured for it, over its own header and payload, and its claims are in force.
Good(t, o, now) ==
    /\ t.form = "jwt" /\ Headers[t.hdr].decodes /\ ~ Headers[t.hdr].crit
    /\ LET alg == Headers[t.hdr].alg
       IN  /\ alg \in o.algs
           /\ t.sig = [alg |-> alg, over |-> <<<<t.hdr, t.claims>>>>,
                       key |-> IF alg \in HMACs THEN o.secret ELSE o.public,
                       size |-> IF alg \in DOMAIN keySize THEN 2 * keySize[alg] ELSE 0]
    /\ LET c == t.claims
       IN  /\ c.decodes /\ c.iat >= 0
           /\ IF c.exp = 0 THEN ~ o.requireExpiry ELSE c.exp > 0 /\ now - o.skew <= c.exp
           /\ c.nbf \in 0..(now + o.skew)
           /\ o.issuers = {} \/ c.iss \in o.issuers
           /\ o.audiences = {} \/ \E a \in c.aud : a \in o.audiences

\* A token's verdict is that of the token: the header memo and the pooled hashes,
\* which other requests keep changing, make no difference, and no configuration that
\* JWTAuth accepts makes it panic.
VerdictExact ==
    \A r \in Request : Active(r) /\ req[r].verdict # "none" =>
        LET o == chain[CHOOSE k \in Of("JWTAuth") : TRUE]
            t == req[r].in.token
        IN  CASE req[r].verdict = "accept" -> Good(t, o, req[r].now)
              [] req[r].verdict = "reject" -> IF req[r].now = Never THEN \A now \in Times : ~ Good(t, o, now)
                                              ELSE ~ Good(t, o, req[r].now)
              [] OTHER -> FALSE

\* The address RealIP puts in RemoteAddr: of the last hops, the one nearest the server
\* that no trusted proxy vouches for; the farthest if all are trusted; and the peer's
\* own when the peer is not trusted or no hop is an address.
ClientAddr(in, trusted) ==
    LET n == Len(in.xff)
        hops == {i \in 1..n : i > n - MaxHops /\ Valid(in.xff[i])}
        outside == {i \in hops : in.xff[i] \notin trusted}
        Farthest(S) == CHOOSE i \in S : \A j \in S : i <= j
        Nearest(S) == CHOOSE i \in S : \A j \in S : i >= j
    IN  CASE trusted # {} /\ in.peer \notin trusted -> in.peer
          [] ~ (trusted # {} /\ in.peer \notin trusted) /\ n = 0 ->
               IF Valid(in.realIP) THEN in.realIP ELSE in.peer
          [] OTHER -> IF hops = {} THEN in.peer
                      ELSE IF trusted # {} /\ outside # {} THEN in.xff[Nearest(outside)]
                      ELSE in.xff[Farthest(hops)]

RealClient ==
    \A r \in Request : \A k \in Of("RealIP") :
        Active(r) /\ req[r].at > k => req[r].addr = ClientAddr(req[r].in, chain[k].trusted)
=============================================================================
