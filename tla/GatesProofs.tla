----------------------------- MODULE GatesProofs -----------------------------
(***************************************************************************)
(* What requests share in the middleware before the handler makes no       *)
(* difference to them: for any number of requests, any chain and any       *)
(* tokens, and any number of ids, hops and header values.                  *)
(***************************************************************************)
EXTENDS Gates, SequenceTheorems, WellFoundedInduction, TLAPS

Points == {"frame", "claims", "done"}
Locals == {"pc", "at", "in", "addr", "id", "buf", "alg", "now", "verdict", "hdr", "writes"}

\* A request that is in the chain, and one that is not.
Busy(q) == /\ DOMAIN q = Locals /\ q.pc \in Points /\ q.at \in Nat \ {0}
           /\ q.in \in Clients(chain)
LocalOK(q) == q = Idle \/ Busy(q)

\* The chain is one that a program can have, and requests have their locals.
Typed == /\ chain \in Chains /\ \A k \in Of("JWTAuth") : Constructs(chain[k])
         /\ DOMAIN req = Request /\ \A r \in Request : LocalOK(req[r])

\* What a step of r does not touch.
OthersKeep(r) == /\ chain' = chain /\ DOMAIN req' = Request
                 /\ \A s \in Request \ {r} : req'[s] = req[s]

-----------------------------------------------------------------------------
(* Types, and what each kind of step changes.                              *)

\* An idle request is not in the chain.
LEMMA IdleIs == /\ DOMAIN Idle = {"pc"} /\ Idle.pc = "idle"
                /\ \A q : Busy(q) => q # Idle /\ q.pc # "idle"
                /\ \A q : LocalOK(q) => (q = Idle <=> q.pc = "idle")
<1>1. DOMAIN Idle = {"pc"} /\ Idle.pc = "idle"
  BY DEF Idle
<1>2. \A q : Busy(q) => q # Idle /\ q.pc # "idle"
  BY <1>1 DEF Busy, Locals, Points
<1> QED
  BY <1>1, <1>2 DEF LocalOK

\* A request arrives with nothing but what the client sent.
LEMMA ArriveLocal ==
    ASSUME Typed, NEW r \in Request, Arrive(r)
    PROVE  /\ req[r] = Idle /\ OthersKeep(r) /\ UNCHANGED <<shared, heap, want>>
           /\ \E in \in Clients(chain) :
                 req'[r] = [pc |-> "frame", at |-> 1, in |-> in, addr |-> in.peer,
                            id |-> <<>>, buf |-> <<>>, alg |-> "none", now |-> Never,
                            verdict |-> "none", hdr |-> <<>>, writes |-> 0]
BY IdleIs DEF Typed, Arrive, OthersKeep

\* A request that goes on as q.
Goes(r, q) == req' = [req EXCEPT ![r] = q] /\ chain' = chain

\* Only the request that takes a step goes on.
LEMMA GoesOn ==
    ASSUME Typed, NEW r \in Request, NEW q, Goes(r, q)
    PROVE  OthersKeep(r) /\ req'[r] = q
BY DEF Typed, Goes, OthersKeep

\* A request with some of its locals changed.
Kept(q, u) == Busy(u) /\ u.in = q.in

\* Every step changes a few locals, one after the other.
LEMMA Changes ==
    ASSUME NEW q, Busy(q)
    PROVE  /\ Kept(q, Passed(q)) /\ Kept(q, Answered(q))
           /\ \A v : Kept(q, [q EXCEPT !.addr = v])
           /\ \A v : Kept(q, [q EXCEPT !.id = v])
           /\ \A v : Kept(q, [q EXCEPT !.buf = v])
           /\ \A v : Kept(q, [q EXCEPT !.alg = v])
           /\ \A v : Kept(q, [q EXCEPT !.now = v])
           /\ \A v : Kept(q, [q EXCEPT !.verdict = v])
           /\ \A v : Kept(q, [q EXCEPT !.hdr = v])
           /\ \A v : Kept(q, [q EXCEPT !.writes = v])
           /\ \A v \in Points : Kept(q, [q EXCEPT !.pc = v])
BY DEF Kept, Busy, Locals, Points, Passed, Answered

\* r goes on, as a request in the chain, or it is served.
Moves(r) == \E u : Goes(r, u) /\ (u = Idle \/ Kept(req[r], u))

\* It goes on as u.
LEMMA MovesTo ==
    ASSUME NEW r, NEW u, Goes(r, u), u = Idle \/ Kept(req[r], u) PROVE Moves(r)
BY DEF Moves

\* A middleware that writes response headers leaves what the client sent.
LEMMA Responds ==
    ASSUME NEW r \in Request, NEW p, NEW u, Busy(req[r]), Kept(req[r], u), Respond(r, p, u)
    PROVE  Moves(r)
<1>1. Kept(u, [u EXCEPT !.hdr = p.hdr])
  BY Changes DEF Kept
<1> QED
  BY <1>1 DEF Respond, Moves, Goes, Kept

\* So does a refusal.
LEMMA Rejects ==
    ASSUME NEW r \in Request, Busy(req[r]), Reject(r), chain' = chain
    PROVE  Moves(r)
<1>1. Kept(req[r], Answered(req[r]))
  BY Changes
<1>2. Kept(Answered(req[r]), [Answered(req[r]) EXCEPT !.verdict = "reject"])
  BY <1>1, Changes DEF Kept
<1> QED
  BY <1>1, <1>2 DEF Reject, Moves, Goes, Kept

\* A step of r, and none of the others.
LEMMA StepMoves ==
    ASSUME Typed, NEW r \in Request, Step(r)
    PROVE  /\ Busy(req[r]) /\ OthersKeep(r)
           /\ req'[r] = Idle \/ (Busy(req'[r]) /\ req'[r].in = req[r].in)
<1> DEFINE q == req[r]
<1>0. SUFFICES Busy(q) /\ Moves(r)
  BY GoesOn DEF Moves, Kept
<1>1. Busy(q)
  <2>1. q.pc # "idle"
    BY DEF Step, SetHeader, NoCache, CORS, Draw, RequestID, RealIP, LoadMemo, Decode, Verify,
           Claims, Handler, Finish, In
  <2> QED
    BY <2>1, IdleIs DEF Typed, LocalOK
<1>2. CASE SetHeader(r) \/ NoCache(r)
  BY <1>1, <1>2, Changes, Responds DEF SetHeader, NoCache
<1>3. CASE CORS(r)
  <2>1. \A c : Kept(q, IF c THEN Passed(q) ELSE Answered(q))
    BY <1>1, Changes
  <2> QED
    BY <1>1, <1>3, <2>1, Responds DEF CORS
<1>4. CASE Draw(r)
  <2>1. \E v : req' = [req EXCEPT ![r].buf = v] /\ chain' = chain
    BY <1>4 DEF Draw
  <2>2. \E v : Goes(r, [q EXCEPT !.buf = v])
    BY <2>1 DEF Goes
  <2> QED
    BY <1>1, <2>2, Changes DEF Moves
<1>5. CASE RequestID(r)
  <2>1. PICK h, id : Goes(r, [Passed(q) EXCEPT !.hdr = h, !.id = id, !.buf = <<>>])
    BY <1>5 DEF RequestID, Goes
  <2>2. Kept(q, [Passed(q) EXCEPT !.hdr = h, !.id = id, !.buf = <<>>])
    BY <1>1 DEF Kept, Busy, Locals, Points, Passed
  <2> QED
    BY <1>1, <2>1, <2>2, MovesTo
<1>6. CASE RealIP(r)
  <2>1. PICK v : Goes(r, [Passed(q) EXCEPT !.addr = v])
    BY <1>6 DEF RealIP, Goes
  <2>2. Kept(q, [Passed(q) EXCEPT !.addr = v])
    BY <1>1 DEF Kept, Busy, Locals, Points, Passed
  <2> QED
    BY <1>1, <2>1, <2>2, MovesTo
<1>7. CASE LoadMemo(r)
  <2>1. Reject(r) \/ \E v : Goes(r, [q EXCEPT !.alg = v])
    BY <1>7 DEF LoadMemo, Goes
  <2> QED
    BY <1>1, <1>7, <2>1, Changes, Rejects DEF Moves, LoadMemo
<1>8. CASE Decode(r)
  <2>1. Reject(r) \/ \E v : Goes(r, [q EXCEPT !.alg = v])
    BY <1>8 DEF Decode, Goes
  <2> QED
    BY <1>1, <1>8, <2>1, Changes, Rejects DEF Moves, Decode
<1>9. CASE Verify(r)
  <2>1. \/ Reject(r) \/ Goes(r, [q EXCEPT !.pc = "claims"])
        \/ Goes(r, [q EXCEPT !.verdict = "panic", !.pc = "done"])
    BY <1>9 DEF Verify, VerifyHMAC, VerifyPublic, Goes
  <2>2. "claims" \in Points /\ Kept(q, [q EXCEPT !.verdict = "panic", !.pc = "done"])
    BY <1>1 DEF Kept, Busy, Locals, Points
  <2> QED
    BY <1>1, <1>9, <2>1, <2>2, Changes, Rejects DEF Moves, Verify
<1>10. CASE Claims(r)
  <2>1. PICK now : \/ Goes(r, [Answered(q) EXCEPT !.verdict = "reject", !.now = now])
                   \/ Goes(r, [Passed(q) EXCEPT !.verdict = "accept", !.now = now])
    BY <1>10 DEF Claims, Goes
  <2>2. /\ Kept(q, [Answered(q) EXCEPT !.verdict = "reject", !.now = now])
        /\ Kept(q, [Passed(q) EXCEPT !.verdict = "accept", !.now = now])
    BY <1>1 DEF Kept, Busy, Locals, Points, Passed, Answered
  <2> QED
    BY <1>1, <2>1, <2>2, MovesTo
<1>11. CASE Handler(r)
  BY <1>1, <1>11, Changes, Responds DEF Handler
<1>12. CASE Finish(r)
  <2>1. Goes(r, Idle)
    BY <1>12 DEF Finish, Goes
  <2> QED
    BY <1>1, <2>1, MovesTo
<1> QED
  BY <1>1, <1>2, <1>3, <1>4, <1>5, <1>6, <1>7, <1>8, <1>9, <1>10, <1>11, <1>12 DEF Step

\* Arrivals and the collector keep the types too.
LEMMA TypedStep == Typed /\ [Next]_vars => Typed'
<1> SUFFICES ASSUME Typed, [Next]_vars PROVE Typed'
  OBVIOUS
<1>1. ASSUME NEW r \in Request, Arrive(r) PROVE Typed'
  <2>1. PICK in \in Clients(chain) :
           req'[r] = [pc |-> "frame", at |-> 1, in |-> in, addr |-> in.peer,
                      id |-> <<>>, buf |-> <<>>, alg |-> "none", now |-> Never,
                      verdict |-> "none", hdr |-> <<>>, writes |-> 0]
    BY <1>1, ArriveLocal
  <2>2. OthersKeep(r)
    BY <1>1, ArriveLocal
  <2>3. Busy(req'[r])
    BY <2>1 DEF Busy, Locals, Points
  <2> QED
    BY <2>2, <2>3 DEF Typed, OthersKeep, LocalOK, Busy, Of
<1>2. ASSUME NEW r \in Request, Step(r) PROVE Typed'
  BY <1>2, StepMoves DEF Typed, OthersKeep, LocalOK, Busy, Of
<1>3. CASE Collect \/ UNCHANGED vars
  BY <1>3 DEF Collect, vars, Typed, LocalOK, Busy, Of
<1> QED
  BY <1>1, <1>2, <1>3 DEF Next

\* A program starts with a chain that it can have, and no request.
LEMMA TypedInit == Init => Typed
BY DEF Init, Typed, LocalOK, Of

-----------------------------------------------------------------------------
(* Random ids.                                                             *)

\* The buffers that requests have taken.
Has(r) == req[r] # Idle /\ req[r].buf # <<>>
Buf(r) == req[r].buf[1]

\* Bytes of the buffer b, up to its offset, may have been served.
Ahead(b) == \A i \in 1..Len(served) : served[i][1] = b.batch => served[i][2] < b.off

\* No two buffers have the same random bytes, and what a buffer has left was not served.
Buffers ==
    /\ batches \in Nat /\ served \in Seq(Nat \X Nat)
    /\ pool \subseteq [batch : 1..batches, off : 0..PerBuf]
    /\ \A r \in Request : Has(r) => \E b \in [batch : 1..batches, off : 0..(PerBuf - 1)] :
                                      req[r].buf = <<b>>
    /\ \A b, c \in pool : b.batch = c.batch => b = c
    /\ \A r \in Request : Has(r) => \A b \in pool : b.batch # Buf(r).batch
    /\ \A r, s \in Request : Has(r) /\ Has(s) /\ Buf(r).batch = Buf(s).batch => r = s
    /\ \A b \in pool : Ahead(b)
    /\ \A r \in Request : Has(r) => Ahead(Buf(r))
    /\ IdsUnique

\* A step that touches no buffer.
LEMMA BuffersLeft ==
    ASSUME Typed, Buffers, NEW r \in Request, OthersKeep(r), UNCHANGED <<pool, batches, served>>,
           req'[r] = Idle \/ req'[r].buf = <<>> \/ (req[r] # Idle /\ req'[r].buf = req[r].buf)
    PROVE  Buffers'
<1>1. \A s \in Request : Has(s)' => Has(s) /\ req'[s].buf = req[s].buf /\ Buf(s)' = Buf(s)
  BY DEF OthersKeep, Has, Buf
<1>2. IdsUnique' /\ \A b : Ahead(b)' <=> Ahead(b)
  BY DEF Buffers, IdsUnique, Ahead
<1>3. /\ \A s \in Request : Has(s)' => \E b \in [batch : 1..batches', off : 0..(PerBuf - 1)] :
                                         req'[s].buf = <<b>>
      /\ \A s \in Request : Has(s)' => \A b \in pool' : b.batch # Buf(s)'.batch
  BY <1>1 DEF Buffers
<1>4. /\ \A s, t \in Request : Has(s)' /\ Has(t)' /\ Buf(s)'.batch = Buf(t)'.batch => s = t
      /\ \A s \in Request : Has(s)' => Ahead(Buf(s))'
  BY <1>1, <1>2 DEF Buffers
<1> QED
  BY <1>2, <1>3, <1>4 DEF Buffers

\* A step that leaves the random bytes, the memo and the verdict alone.
LeavesIds(r) == UNCHANGED <<pool, batches, served>> /\ req'[r].buf = req[r].buf
LeavesToken(r) ==
    LET q == req[r]
        u == req'[r]
    IN  /\ UNCHANGED <<headerMemo, hashes>>
        /\ u.alg = q.alg /\ u.now = q.now /\ u.verdict = q.verdict
        /\ q.pc = "frame" /\ ~ In(r, "JWTAuth")
        /\ \/ u.pc = "frame" /\ u.at \in {q.at, q.at + 1}
           \/ u.pc = "done" /\ u.at = q.at
LeavesHeaders(r) == UNCHANGED <<heap, want>> /\ req'[r].hdr = req[r].hdr

\* What one of the middleware that set response headers, or the handler, changes.
LEMMA ResponseSteps ==
    ASSUME Typed, NEW r \in Request, SetHeader(r) \/ NoCache(r) \/ CORS(r) \/ Handler(r)
    PROVE  LeavesIds(r) /\ LeavesToken(r)
<1> DEFINE q == req[r]
           Moved(p, u) == /\ u \in {Passed(q), Answered(q), [q EXCEPT !.writes = @ + 1]}
                          /\ Goes(r, [u EXCEPT !.hdr = p.hdr]) /\ UNCHANGED shared
<1>1. PICK p, u : Moved(p, u)
  <2>1. CASE SetHeader(r) \/ NoCache(r)
    BY <2>1 DEF SetHeader, NoCache, Respond, Goes
  <2>2. CASE CORS(r)
    BY <2>2 DEF CORS, Respond, Goes
  <2>3. CASE Handler(r)
    BY <2>3 DEF Handler, Respond, Goes
  <2> QED
    BY <2>1, <2>2, <2>3
<1>2. Busy(q) /\ q.pc = "frame" /\ ~ In(r, "JWTAuth")
  <2>1. q.pc = "frame" /\ ~ In(r, "JWTAuth")
    <3>1. CASE SetHeader(r) \/ NoCache(r) \/ CORS(r)
      BY <3>1 DEF SetHeader, NoCache, CORS, In
    <3>2. CASE Handler(r)
      <4>1. Busy(q)
        BY <3>2, IdleIs DEF Handler, Typed, LocalOK
      <4> QED
        BY <3>2, <4>1, ChainsAssumption DEF Handler, In, Busy, ChainsAssumption, Typed
    <3> QED
      BY <3>1, <3>2
  <2> QED
    BY <2>1, IdleIs DEF Typed, LocalOK
<1>3. req'[r] = [u EXCEPT !.hdr = p.hdr] /\ UNCHANGED shared
  BY <1>1, GoesOn
<1>4. CASE u = Passed(q)
  BY <1>2, <1>3, <1>4 DEF Passed, Busy, Locals, LeavesIds, LeavesToken, shared
<1>5. CASE u = Answered(q)
  BY <1>2, <1>3, <1>5 DEF Answered, Busy, Locals, LeavesIds, LeavesToken, shared
<1>6. CASE u = [q EXCEPT !.writes = @ + 1]
  BY <1>2, <1>3, <1>6 DEF Busy, Locals, LeavesIds, LeavesToken, shared
<1> QED
  BY <1>1, <1>4, <1>5, <1>6

\* What RealIP changes.
LEMMA RealIPStep ==
    ASSUME Typed, NEW r \in Request, RealIP(r)
    PROVE  LeavesIds(r) /\ LeavesToken(r) /\ LeavesHeaders(r)
<1>1. Busy(req[r]) /\ req[r].pc = "frame" /\ ~ In(r, "JWTAuth")
  BY IdleIs DEF RealIP, In, Typed, LocalOK
<1>2. PICK v : Goes(r, [Passed(req[r]) EXCEPT !.addr = v])
  BY DEF RealIP, Goes
<1>3. req'[r] = [Passed(req[r]) EXCEPT !.addr = v]
  BY <1>2, GoesOn
<1> QED
  BY <1>1, <1>3 DEF RealIP, Passed, Busy, Locals, LeavesIds, LeavesToken, LeavesHeaders, shared

\* What drawing random bytes changes besides the buffers, and using them.
LEMMA IdSteps ==
    ASSUME Typed, NEW r \in Request, Draw(r) \/ RequestID(r)
    PROVE  /\ LeavesToken(r)
           /\ Draw(r) => LeavesHeaders(r)
<1>1. Busy(req[r]) /\ req[r].pc = "frame" /\ ~ In(r, "JWTAuth")
  BY IdleIs DEF Draw, RequestID, In, Typed, LocalOK
<1>2. CASE Draw(r)
  <2>1. PICK v : Goes(r, [req[r] EXCEPT !.buf = v])
    BY <1>2 DEF Draw, Goes
  <2>2. req'[r] = [req[r] EXCEPT !.buf = v]
    BY <2>1, GoesOn
  <2> QED
    BY <1>1, <1>2, <2>2 DEF Draw, Busy, Locals, LeavesToken, LeavesHeaders
<1>3. CASE RequestID(r)
  <2>1. PICK h, id : Goes(r, [Passed(req[r]) EXCEPT !.hdr = h, !.id = id, !.buf = <<>>])
    BY <1>3 DEF RequestID, Goes
  <2>2. req'[r] = [Passed(req[r]) EXCEPT !.hdr = h, !.id = id, !.buf = <<>>]
    BY <2>1, GoesOn
  <2>3. LeavesToken(r)
    BY <1>1, <1>3, <2>2 DEF RequestID, Passed, Busy, Locals, LeavesToken
  <2>4. ~ Draw(r)
    BY <1>3 DEF Draw, RequestID
  <2> QED
    BY <2>3, <2>4
<1> QED
  BY <1>2, <1>3

\* What each step of JWTAuth does to its request: it goes on, it is refused, or it panics.
Same(r) == /\ req'[r].alg = req[r].alg /\ req'[r].at = req[r].at /\ req'[r].now = req[r].now
Rejected(r) == Same(r) /\ req'[r].pc = "done" /\ req'[r].verdict = "reject"
LoadsAlg(r, alg) == /\ req'[r].alg = alg /\ req'[r].at = req[r].at /\ req'[r].now = req[r].now
                    /\ req'[r].pc = req[r].pc /\ req'[r].verdict = req[r].verdict

\* A refusal.
LEMMA RejectIs ==
    ASSUME Typed, NEW r \in Request, Busy(req[r]), Reject(r), chain' = chain
    PROVE  /\ Rejected(r) /\ req'[r].buf = req[r].buf /\ req'[r].hdr = req[r].hdr
<1>1. Goes(r, [Answered(req[r]) EXCEPT !.verdict = "reject"])
  BY DEF Reject, Goes
<1>2. req'[r] = [Answered(req[r]) EXCEPT !.verdict = "reject"]
  BY <1>1, GoesOn
<1> QED
  BY <1>2 DEF Answered, Busy, Locals, Rejected, Same

\* An algorithm that is loaded.
LEMMA LoadIs ==
    ASSUME Typed, NEW r \in Request, Busy(req[r]), NEW alg, chain' = chain,
           req' = [req EXCEPT ![r].alg = alg]
    PROVE  LoadsAlg(r, alg) /\ req'[r].buf = req[r].buf /\ req'[r].hdr = req[r].hdr
<1>1. Goes(r, [req[r] EXCEPT !.alg = alg])
  BY DEF Goes
<1>2. req'[r] = [req[r] EXCEPT !.alg = alg]
  BY <1>1, GoesOn
<1> QED
  BY <1>2 DEF Busy, Locals, LoadsAlg

\* The verification of a signature succeeds with the message absorbed alone.
SignedHMAC(r, alg) ==
    LET t == req[r].in.token
    IN  t.sig = [alg |-> alg, key |-> opts(r).secret, over |-> <<<<t.hdr, t.claims>>>>, size |-> 0]
SignedPublic(r, alg) ==
    LET t == req[r].in.token
        o == opts(r)
    IN  /\ alg \in RSAs \/ t.sig.size = 2 * keySize[alg]
        /\ t.sig.alg = alg /\ t.sig.key = o.public /\ t.sig.over = <<<<t.hdr, t.claims>>>>
FitsPublic(r, alg) == IF alg \in RSAs THEN opts(r).public = "RSA"
                      ELSE opts(r).public # "nil" /\ opts(r).public # "RSA"
Accepts(r) == LET t == req[r].in.token
                  alg == req[r].alg
              IN  /\ t.sig.alg # "undecodable"
                  /\ IF alg \in HMACs THEN SignedHMAC(r, alg) ELSE SignedPublic(r, alg)

\* LoadMemo decides from the memo, or goes on to decode.
LEMMA LoadMemoIs ==
    ASSUME Typed, NEW r \in Request, LoadMemo(r)
    PROVE  LET t == req[r].in.token
           IN  /\ In(r, "JWTAuth") /\ req[r].alg = "none" /\ LeavesIds(r) /\ LeavesHeaders(r)
               /\ UNCHANGED <<headerMemo, hashes>>
               /\ IF t.form # "jwt" THEN Rejected(r)
                  ELSE LoadsAlg(r, IF Hits(t.hdr) THEN headerMemo.alg ELSE "decode")
<1>1. Busy(req[r])
  BY IdleIs DEF LoadMemo, In, Typed, LocalOK
<1> QED
  BY <1>1, RejectIs, LoadIs DEF LoadMemo, LeavesIds, LeavesHeaders, shared

\* Decode refuses the header, or stores it in the memo.
LEMMA DecodeIs ==
    ASSUME Typed, NEW r \in Request, Decode(r)
    PROVE  LET t == req[r].in.token
               h == Headers[t.hdr]
           IN  /\ In(r, "JWTAuth") /\ req[r].alg = "decode" /\ LeavesIds(r) /\ LeavesHeaders(r)
               /\ IF ~ h.decodes \/ h.alg \notin opts(r).algs \/ h.crit
                  THEN Rejected(r) /\ UNCHANGED headerMemo
                  ELSE LoadsAlg(r, h.alg) /\ headerMemo' = [hdr |-> t.hdr, alg |-> h.alg]
<1>1. Busy(req[r])
  BY IdleIs DEF Decode, In, Typed, LocalOK
<1> QED
  BY <1>1, RejectIs, LoadIs DEF Decode, LeavesIds, LeavesHeaders, shared

\* Verify absorbs this message only, whatever the pooled hash had absorbed.
LEMMA VerifyIs ==
    ASSUME Typed, NEW r \in Request, Verify(r)
    PROVE  /\ In(r, "JWTAuth") /\ req[r].alg \notin {"none", "decode"}
           /\ LeavesIds(r) /\ LeavesHeaders(r) /\ UNCHANGED headerMemo
           /\ \/ Rejected(r) /\ ~ Accepts(r)
              \/ Same(r) /\ req'[r].pc = "claims" /\ req'[r].verdict = req[r].verdict /\ Accepts(r)
              \/ /\ req[r].alg \notin HMACs /\ ~ FitsPublic(r, req[r].alg)
                 /\ Same(r) /\ req'[r].pc = "done" /\ req'[r].verdict = "panic"
<1> DEFINE q == req[r]
           t == q.in.token
           Goes1 == Goes(r, [q EXCEPT !.pc = "claims"])
           Goes2 == Goes(r, [q EXCEPT !.verdict = "panic", !.pc = "done"])
<1>1. Busy(q) /\ chain' = chain
  BY IdleIs DEF Verify, In, Typed, LocalOK
<1>2. \/ Reject(r) /\ ~ Accepts(r)
      \/ Goes1 /\ Accepts(r)
      \/ Goes2 /\ q.alg \notin HMACs /\ ~ FitsPublic(r, q.alg)
  <2>1. CASE t.sig.alg = "undecodable"
    BY <2>1 DEF Verify, Accepts
  <2>2. CASE t.sig.alg # "undecodable" /\ q.alg \in HMACs
    <3>1. VerifyHMAC(r, q.alg, t)
      BY <2>2 DEF Verify
    <3>2. PICK h \in {hashes[q.alg], <<>>} :
             IF t.sig = [alg |-> q.alg, key |-> opts(r).secret,
                         over |-> (IF h = NoHash THEN <<>> ELSE Reset(h)) \o <<<<t.hdr, t.claims>>>>,
                         size |-> 0]
             THEN req' = [req EXCEPT ![r].pc = "claims"] ELSE Reject(r)
      BY <3>1 DEF VerifyHMAC
    <3>3. (IF h = NoHash THEN <<>> ELSE Reset(h)) \o <<<<t.hdr, t.claims>>>> = <<<<t.hdr, t.claims>>>>
      BY DEF Reset
    <3>4. IF SignedHMAC(r, q.alg) THEN req' = [req EXCEPT ![r].pc = "claims"] ELSE Reject(r)
      BY <3>2, <3>3 DEF SignedHMAC
    <3> QED
      BY <1>1, <2>2, <3>4 DEF Accepts, Goes
  <2>3. CASE t.sig.alg # "undecodable" /\ q.alg \notin HMACs
    <3>1. VerifyPublic(r, q.alg, t)
      BY <2>3 DEF Verify
    <3> QED
      BY <1>1, <2>3, <3>1 DEF VerifyPublic, Accepts, SignedPublic, FitsPublic, Goes
  <2> QED
    BY <2>1, <2>2, <2>3
<1>3. CASE Reject(r) /\ ~ Accepts(r)
  BY <1>1, <1>3, RejectIs DEF Verify, LeavesIds, LeavesHeaders
<1>4. CASE Goes1 /\ Accepts(r)
  <2>1. req'[r] = [q EXCEPT !.pc = "claims"]
    BY <1>4, GoesOn
  <2> QED
    BY <1>1, <1>4, <2>1 DEF Verify, LeavesIds, LeavesHeaders, Same, Busy, Locals
<1>5. CASE Goes2 /\ q.alg \notin HMACs /\ ~ FitsPublic(r, q.alg)
  <2>1. req'[r] = [q EXCEPT !.verdict = "panic", !.pc = "done"]
    BY <1>5, GoesOn
  <2> QED
    BY <1>1, <1>5, <2>1 DEF Verify, LeavesIds, LeavesHeaders, Same, Busy, Locals
<1> QED
  BY <1>2, <1>3, <1>4, <1>5

\* Claims refuses the payload, or passes the request on.
LEMMA ClaimsIs ==
    ASSUME Typed, NEW r \in Request, Claims(r)
    PROVE  /\ req[r].pc = "claims" /\ LeavesIds(r) /\ LeavesHeaders(r)
           /\ UNCHANGED <<headerMemo, hashes>> /\ req'[r].alg = req[r].alg
           /\ \E now \in Times :
                 /\ req'[r].now = now
                 /\ IF Refused(req[r].in.token.claims, opts(r), now)
                    THEN /\ req'[r].pc = "done" /\ req'[r].verdict = "reject"
                         /\ req'[r].at = req[r].at
                    ELSE /\ req'[r].pc = "frame" /\ req'[r].verdict = "accept"
                         /\ req'[r].at = req[r].at + 1
<1> DEFINE q == req[r]
           Refuses(now) == Refused(q.in.token.claims, opts(r), now)
           No(now) == [Answered(q) EXCEPT !.verdict = "reject", !.now = now]
           Yes(now) == [Passed(q) EXCEPT !.verdict = "accept", !.now = now]
<1>1. Busy(q)
  BY IdleIs DEF Claims, Typed, LocalOK
<1>2. PICK now \in Times : IF Refuses(now) THEN Goes(r, No(now)) ELSE Goes(r, Yes(now))
  BY DEF Claims, Goes
<1>3. IF Refuses(now) THEN req'[r] = No(now) ELSE req'[r] = Yes(now)
  BY <1>2, GoesOn
<1>4. UNCHANGED <<pool, batches, served, heap, want, headerMemo, hashes>> /\ q.pc = "claims"
  BY DEF Claims, shared
<1>5. CASE Refuses(now)
  BY <1>1, <1>3, <1>4, <1>5 DEF LeavesIds, LeavesHeaders, Busy, Locals, Answered
<1>6. CASE ~ Refuses(now)
  BY <1>1, <1>3, <1>4, <1>6 DEF LeavesIds, LeavesHeaders, Busy, Locals, Passed
<1> QED
  BY <1>5, <1>6

-----------------------------------------------------------------------------
(* Random ids, step by step.                                               *)

\* Draw takes a buffer that has bytes left, or fills one.
LEMMA DrawKeeps ==
    ASSUME Typed, Buffers, NEW r \in Request, Draw(r) PROVE Buffers'
<1>0. /\ Busy(req[r]) /\ ~ Has(r) /\ UNCHANGED served /\ OthersKeep(r) /\ PerBuf \in Nat \ {0}
      /\ req[r].buf = <<>>
  <2>1. Busy(req[r])
    BY IdleIs DEF Draw, In, Typed, LocalOK
  <2> QED
    BY <2>1, StepMoves, GatesAssumption DEF Draw, Has, Step, GatesAssumption
<1>1. PICK b \in pool \cup {newExhaustedRequestIDBuf} :
         /\ pool' = pool \ {b}
         /\ IF b.off + 1 > PerBuf
            THEN /\ batches' = batches + 1
                 /\ req' = [req EXCEPT ![r].buf = <<[batch |-> batches + 1, off |-> 0]>>]
            ELSE req' = [req EXCEPT ![r].buf = <<b>>] /\ batches' = batches
  BY DEF Draw
<1> DEFINE c == IF b.off + 1 > PerBuf THEN [batch |-> batches + 1, off |-> 0] ELSE b
<1>2. Goes(r, [req[r] EXCEPT !.buf = <<c>>])
  BY <1>0, <1>1 DEF Goes, OthersKeep
<1>3. req'[r] = [req[r] EXCEPT !.buf = <<c>>]
  BY <1>2, GoesOn
<1>4. req'[r].buf = <<c>> /\ Has(r)' /\ Buf(r)' = c
  BY <1>0, <1>3, IdleIs DEF Busy, Locals, Has, Buf
<1>5. \A s \in Request \ {r} : (Has(s)' <=> Has(s)) /\ Buf(s)' = Buf(s) /\ req'[s].buf = req[s].buf
  BY <1>0 DEF OthersKeep, Has, Buf
<1>6. batches \in Nat /\ served \in Seq(Nat \X Nat) /\ IdsUnique
  BY DEF Buffers
<1>7. /\ \A i \in 1..Len(served) : served[i][1] \in 1..batches
      /\ \A d : Ahead(d)' <=> Ahead(d)
  BY <1>0, <1>6 DEF IdsUnique, Ahead
<1>8. CASE b.off + 1 > PerBuf
  <2>1. c = [batch |-> batches + 1, off |-> 0] /\ batches' = batches + 1
    BY <1>1, <1>8
  <2>2. c \in [batch : 1..(batches + 1), off : 0..(PerBuf - 1)] /\ c.batch = batches + 1
    BY <2>1, <1>6, <1>0
  <2>3. Ahead(c)
    BY <2>2, <1>6, <1>7 DEF Ahead
  <2>4. \A d \in pool : d.batch \in 1..batches
    BY DEF Buffers
  <2>5. \A s \in Request : Has(s) => Buf(s).batch \in 1..batches
    BY DEF Buffers, Buf
  <2>6. IdsUnique'
    BY <1>0, <1>6, <2>1 DEF IdsUnique
  <2>7. pool' \subseteq [batch : 1..batches', off : 0..PerBuf]
    BY <1>1, <1>6, <2>1 DEF Buffers
  <2>8. \A s \in Request : Has(s)' => \E d \in [batch : 1..batches', off : 0..(PerBuf - 1)] :
                                         req'[s].buf = <<d>>
    <3>1. \A s \in Request \ {r} : Has(s)' => \E d \in [batch : 1..batches, off : 0..(PerBuf - 1)] :
                                         req'[s].buf = <<d>>
      BY <1>5 DEF Buffers
    <3>2. [batch : 1..batches, off : 0..(PerBuf - 1)] \subseteq [batch : 1..batches', off : 0..(PerBuf - 1)]
      BY <2>1, <1>6
    <3> QED
      BY <3>1, <3>2, <2>1, <2>2, <1>4
  <2>9. \A s, t \in Request : Has(s)' /\ Has(t)' /\ Buf(s)'.batch = Buf(t)'.batch => s = t
    BY <1>4, <1>5, <1>6, <2>2, <2>5 DEF Buffers
  <2>10. \A s \in Request : Has(s)' => \A d \in pool' : d.batch # Buf(s)'.batch
    BY <1>1, <1>4, <1>5, <1>6, <2>2, <2>4 DEF Buffers
  <2>11. \A s \in Request : Has(s)' => Ahead(Buf(s))'
    BY <1>4, <1>5, <1>7, <2>3 DEF Buffers
  <2>12. batches' \in Nat /\ served' \in Seq(Nat \X Nat)
         /\ (\A d, e \in pool' : d.batch = e.batch => d = e) /\ (\A d \in pool' : Ahead(d)')
    BY <1>0, <1>1, <1>6, <1>7, <2>1 DEF Buffers
  <2> QED
    BY <2>6, <2>7, <2>8, <2>9, <2>10, <2>11, <2>12 DEF Buffers
<1>9. CASE ~ (b.off + 1 > PerBuf)
  <2>1. b \in pool /\ c = b /\ batches' = batches
    BY <1>0, <1>1, <1>9 DEF newExhaustedRequestIDBuf
  <2>2. b \in [batch : 1..batches, off : 0..(PerBuf - 1)]
    BY <1>0, <1>6, <1>9, <2>1 DEF Buffers
  <2>3. IdsUnique' /\ Ahead(b)
    BY <1>0, <2>1 DEF Buffers, IdsUnique
  <2>4. \A s \in Request : Has(s)' => \E d \in [batch : 1..batches', off : 0..(PerBuf - 1)] :
                                         req'[s].buf = <<d>>
    BY <1>4, <1>5, <2>1, <2>2 DEF Buffers
  <2>5. \A s, t \in Request : Has(s)' /\ Has(t)' /\ Buf(s)'.batch = Buf(t)'.batch => s = t
    BY <1>4, <1>5, <2>1 DEF Buffers
  <2>6. \A s \in Request : Has(s)' => \A d \in pool' : d.batch # Buf(s)'.batch
    BY <1>1, <1>4, <1>5, <2>1 DEF Buffers
  <2>7. \A s \in Request : Has(s)' => Ahead(Buf(s))'
    BY <1>4, <1>5, <1>7, <2>1, <2>3 DEF Buffers
  <2>8. /\ batches' \in Nat /\ served' \in Seq(Nat \X Nat)
        /\ pool' \subseteq [batch : 1..batches', off : 0..PerBuf]
        /\ (\A d, e \in pool' : d.batch = e.batch => d = e) /\ (\A d \in pool' : Ahead(d)')
    BY <1>0, <1>1, <1>6, <1>7, <2>1 DEF Buffers
  <2> QED
    BY <2>3, <2>4, <2>5, <2>6, <2>7, <2>8 DEF Buffers
<1> QED
  BY <1>8, <1>9

\* The id that is copied was not served before, and the buffer goes back without it.
LEMMA RequestIDKeeps ==
    ASSUME Typed, Buffers, NEW r \in Request, RequestID(r) PROVE Buffers'
<1>0. Busy(req[r]) /\ OthersKeep(r) /\ req[r] # Idle /\ batches' = batches
  <2>1. Busy(req[r])
    BY IdleIs DEF RequestID, In, Typed, LocalOK
  <2> QED
    BY <2>1, StepMoves, IdleIs DEF RequestID, Step
<1>1. req'[r].buf = <<>>
  <2>1. PICK h, id : Goes(r, [Passed(req[r]) EXCEPT !.hdr = h, !.id = id, !.buf = <<>>])
    BY DEF RequestID, Goes
  <2>2. req'[r] = [Passed(req[r]) EXCEPT !.hdr = h, !.id = id, !.buf = <<>>]
    BY <2>1, GoesOn
  <2> QED
    BY <1>0, <2>2 DEF Busy, Locals, Passed
<1>2. ~ Has(r)'
  BY <1>1 DEF Has
<1>3. \A s \in Request \ {r} : (Has(s)' <=> Has(s)) /\ Buf(s)' = Buf(s) /\ req'[s].buf = req[s].buf
  BY <1>0 DEF OthersKeep, Has, Buf
<1>4. CASE ~ Has(r)
  <2>1. req[r].buf = <<>> /\ req[r].in.validID
    BY <1>0, <1>4 DEF Has, RequestID
  <2>2. pool' = pool /\ served' = served
    BY <2>1 DEF RequestID, ToSet
  <2> QED
    BY <1>0, <1>1, <2>2, BuffersLeft
<1>5. CASE Has(r)
  <2>1. PICK b \in [batch : 1..batches, off : 0..(PerBuf - 1)] : req[r].buf = <<b>>
    BY <1>5 DEF Buffers
  <2>2. Buf(r) = b /\ ToSet(req[r].buf) = {b}
    BY <2>1 DEF Buf, ToSet
  <2> DEFINE c == PutBack(b)
  <2>3. c = [batch |-> b.batch, off |-> b.off + 1]
    BY <2>1 DEF PutBack
  <2>4. pool' = pool \cup {c}
    BY <2>2 DEF RequestID
  <2>5. served' = served \/ served' = Append(served, <<b.batch, b.off>>)
    BY <2>1 DEF RequestID
  <2>6. /\ batches \in Nat /\ served \in Seq(Nat \X Nat) /\ PerBuf \in Nat \ {0} /\ IdsUnique
        /\ b.batch \in 1..batches /\ b.off \in 0..(PerBuf - 1) /\ Ahead(b)
    BY <1>5, <2>1, <2>2, GatesAssumption DEF Buffers, GatesAssumption
  <2> HIDE DEF c
  <2>7. c \in [batch : 1..batches, off : 0..PerBuf] /\ c.batch = b.batch /\ c.off = b.off + 1
    BY <2>3, <2>6
  <2>8. IdsUnique'
    <3>1. CASE served' = served
      BY <3>1, <1>0, <2>6 DEF IdsUnique
    <3>2. CASE served' = Append(served, <<b.batch, b.off>>)
      <4>1. /\ Len(served') = Len(served) + 1 /\ served'[Len(served) + 1] = <<b.batch, b.off>>
            /\ \A i \in 1..Len(served) : served'[i] = served[i] /\ served[i] \in Nat \X Nat
            /\ Len(served) \in Nat
        BY <3>2, <2>6
      <4>2. \A i \in 1..Len(served) : served[i] # <<b.batch, b.off>>
        <5> SUFFICES ASSUME NEW i \in 1..Len(served), served[i] = <<b.batch, b.off>> PROVE FALSE
          OBVIOUS
        <5>1. served[i][1] = b.batch /\ served[i][2] = b.off
          OBVIOUS
        <5> QED
          BY <5>1, <2>6, SMTT(30) DEF Ahead
      <4>3. \A i \in 1..Len(served') : served'[i][1] \in 1..batches
        BY <4>1, <2>6, SMTT(30) DEF IdsUnique
      <4>4. \A i, j \in 1..Len(served') : served'[i] = served'[j] => i = j
        <5> SUFFICES ASSUME NEW i \in 1..(Len(served) + 1), NEW j \in 1..(Len(served) + 1),
                            served'[i] = served'[j]
                     PROVE  i = j
          BY <4>1
        <5>1. CASE i \in 1..Len(served) /\ j \in 1..Len(served)
          BY <4>1, <5>1, <2>6 DEF IdsUnique
        <5>2. CASE i = Len(served) + 1 /\ j \in 1..Len(served)
          BY <4>1, <4>2, <5>2
        <5>3. CASE j = Len(served) + 1 /\ i \in 1..Len(served)
          BY <4>1, <4>2, <5>3
        <5> QED
          BY <4>1, <5>1, <5>2, <5>3
      <4> QED
        BY <4>3, <4>4, <1>0 DEF IdsUnique
    <3> QED
      BY <3>1, <3>2, <2>5
  <2>9. \A d : Ahead(d) /\ (d.batch = b.batch => b.off < d.off) => Ahead(d)'
    <3>1. CASE served' = served
      BY <3>1 DEF Ahead
    <3>2. CASE served' = Append(served, <<b.batch, b.off>>)
      <4>1. /\ Len(served') = Len(served) + 1 /\ served'[Len(served) + 1] = <<b.batch, b.off>>
            /\ \A i \in 1..Len(served) : served'[i] = served[i]
            /\ Len(served) \in Nat
        BY <3>2, <2>6
      <4> SUFFICES ASSUME NEW d, Ahead(d), d.batch = b.batch => b.off < d.off,
                          NEW i \in 1..Len(served'), served'[i][1] = d.batch
                   PROVE  served'[i][2] < d.off
        BY DEF Ahead
      <4>2. CASE i \in 1..Len(served)
        BY <4>1, <4>2 DEF Ahead
      <4>3. CASE i = Len(served) + 1
        BY <4>1, <4>3
      <4>4. i \in 1..Len(served) \/ i = Len(served) + 1
        BY ONLY <4>1, i \in 1..Len(served')
      <4> QED
        BY <4>2, <4>3, <4>4
    <3> QED
      BY <3>1, <3>2, <2>5
  <2>10. Ahead(c)
    <3> SUFFICES ASSUME NEW i \in 1..Len(served), served[i][1] = c.batch
                 PROVE  served[i][2] < c.off
      BY DEF Ahead
    <3>1. served[i] \in Nat \X Nat
      BY <2>6
    <3>2. served[i][1] = b.batch /\ served[i][2] \in Nat
      BY <3>1, <2>7
    <3>3. served[i][2] < b.off
      BY <3>2, <2>6 DEF Ahead
    <3>4. b.off \in Nat /\ c.off = b.off + 1
      BY <2>6, <2>7
    <3> QED
      BY ONLY <3>2, <3>3, <3>4
  <2>11. \A d \in pool : d.batch # b.batch
    BY <1>5, <2>2 DEF Buffers
  <2>12. \A s \in Request \ {r} : Has(s) => Buf(s).batch # b.batch
    BY <1>5, <2>2 DEF Buffers
  <2>13. \A d \in pool' : Ahead(d)'
    <3>1. b.off < c.off
      BY <2>6, <2>7
    <3> QED
      BY <3>1, <2>4, <2>9, <2>10, <2>11 DEF Buffers
  <2>14. \A s \in Request : Has(s)' => Ahead(Buf(s))'
    BY <1>2, <1>3, <2>9, <2>12 DEF Buffers
  <2>15. /\ batches' \in Nat /\ served' \in Seq(Nat \X Nat)
         /\ pool' \subseteq [batch : 1..batches', off : 0..PerBuf]
    <3>1. <<b.batch, b.off>> \in Nat \X Nat
      BY <2>6
    <3>2. served' \in Seq(Nat \X Nat)
      <4> DEFINE S == Nat \X Nat
                 e == <<b.batch, b.off>>
      <4>1. e \in S /\ served \in Seq(S) /\ (served' = served \/ served' = Append(served, e))
        BY <3>1, <2>5, <2>6
      <4> HIDE DEF S, e
      <4>2. served' \in Seq(S)
        BY <4>1
      <4> QED
        BY <4>2 DEF S
    <3> QED
      BY <1>0, <3>2, <2>4, <2>6, <2>7 DEF Buffers
  <2>16. /\ \A d, e \in pool' : d.batch = e.batch => d = e
         /\ \A s \in Request : Has(s)' => \A d \in pool' : d.batch # Buf(s)'.batch
         /\ \A s, t \in Request : Has(s)' /\ Has(t)' /\ Buf(s)'.batch = Buf(t)'.batch => s = t
    <3>1. \A d, e \in pool' : d.batch = e.batch => d = e
      BY <2>4, <2>7, <2>11 DEF Buffers
    <3>2. \A s \in Request : Has(s)' => \A d \in pool' : d.batch # Buf(s)'.batch
      BY <1>2, <1>3, <2>4, <2>7, <2>11, <2>12 DEF Buffers
    <3>3. \A s, t \in Request : Has(s)' /\ Has(t)' /\ Buf(s)'.batch = Buf(t)'.batch => s = t
      BY <1>2, <1>3, <2>12 DEF Buffers
    <3> QED
      BY ONLY <3>1, <3>2, <3>3
  <2>17. \A s \in Request : Has(s)' => \E d \in [batch : 1..batches', off : 0..(PerBuf - 1)] :
                                          req'[s].buf = <<d>>
    BY <1>0, <1>2, <1>3 DEF Buffers
  <2> QED
    BY <2>8, <2>13, <2>14, <2>15, <2>16, <2>17 DEF Buffers
<1> QED
  BY <1>4, <1>5

\* Every step keeps the buffers apart and ahead of what was served.
LEMMA BuffersStep == Typed /\ Buffers /\ [Next]_vars => Buffers'
<1> SUFFICES ASSUME Typed, Buffers, [Next]_vars PROVE Buffers'
  OBVIOUS
<1>1. ASSUME NEW r \in Request, Arrive(r) PROVE Buffers'
  <2>1. PICK in \in Clients(chain) :
           req'[r] = [pc |-> "frame", at |-> 1, in |-> in, addr |-> in.peer,
                      id |-> <<>>, buf |-> <<>>, alg |-> "none", now |-> Never,
                      verdict |-> "none", hdr |-> <<>>, writes |-> 0]
    BY <1>1, ArriveLocal
  <2>2. req'[r].buf = <<>>
    BY <2>1
  <2>3. OthersKeep(r) /\ UNCHANGED <<pool, batches, served>>
    BY <1>1, ArriveLocal DEF shared
  <2> QED
    BY <2>2, <2>3, BuffersLeft
<1>2. ASSUME NEW r \in Request, Step(r) PROVE Buffers'
  <2>0. OthersKeep(r) /\ req[r] # Idle
    BY <1>2, StepMoves, IdleIs
  <2>1. CASE SetHeader(r) \/ NoCache(r) \/ CORS(r) \/ Handler(r) \/ RealIP(r)
    BY <2>0, <2>1, ResponseSteps, RealIPStep, BuffersLeft DEF LeavesIds
  <2>2. CASE Draw(r) \/ RequestID(r)
    BY <2>2, DrawKeeps, RequestIDKeeps
  <2>3. CASE LoadMemo(r) \/ Decode(r) \/ Verify(r) \/ Claims(r)
    BY <2>0, <2>3, LoadMemoIs, DecodeIs, VerifyIs, ClaimsIs, BuffersLeft DEF LeavesIds
  <2>4. CASE Finish(r)
    <3>1. req'[r] = Idle /\ UNCHANGED <<pool, batches, served>>
      BY <2>4 DEF Finish, shared, Typed
    <3> QED
      BY <2>0, <3>1, BuffersLeft
  <2> QED
    BY <1>2, <2>1, <2>2, <2>3, <2>4 DEF Step
<1>3. CASE Collect
  <2>1. pool' \subseteq pool /\ UNCHANGED <<batches, served, req>>
    BY <1>3 DEF Collect
  <2>2. \A s \in Request : (Has(s)' <=> Has(s)) /\ Buf(s)' = Buf(s)
    BY <2>1 DEF Has, Buf
  <2>3. \A d : Ahead(d)' <=> Ahead(d)
    BY <2>1 DEF Ahead
  <2> QED
    BY <2>1, <2>2, <2>3 DEF Buffers, IdsUnique
<1>4. CASE UNCHANGED vars
  BY <1>4 DEF vars, Buffers, Has, Buf, Ahead, IdsUnique
<1> QED
  BY <1>1, <1>2, <1>3, <1>4 DEF Next

\* No buffer was filled and nothing served.
LEMMA BuffersInit == Init => Buffers
<1> SUFFICES ASSUME Init PROVE Buffers
  OBVIOUS
<1>1. \A r \in Request : ~ Has(r)
  BY DEF Init, Has
<1> QED
  BY <1>1 DEF Init, Buffers, IdsUnique

\* No random bytes identify two requests, and none are served that were not read from
\* crypto/rand (nextRandomID and requestIDBufPool), for any number of requests and
\* collections and any size of the buffers.
THEOREM RandomIdsUnique == Spec => []IdsUnique
<1>1. Spec => [](Typed /\ Buffers)
  BY TypedInit, TypedStep, BuffersInit, BuffersStep, PTL DEF Spec
<1>2. Typed /\ Buffers => IdsUnique
  BY DEF Buffers
<1> QED
  BY <1>1, <1>2, PTL

-----------------------------------------------------------------------------
(* Verdicts.                                                               *)

\* The options of the JWTAuth in the chain, if there is one.
Options == chain[CHOOSE k \in Of("JWTAuth") : TRUE]

\* What is good about a token's header, about its signature, and about its payload.
HeaderGood(t, o) == /\ t.form = "jwt" /\ Headers[t.hdr].decodes /\ ~ Headers[t.hdr].crit
                    /\ Headers[t.hdr].alg \in o.algs
SignatureGood(t, o) ==
    LET alg == Headers[t.hdr].alg
    IN  t.sig = [alg |-> alg, over |-> <<<<t.hdr, t.claims>>>>,
                 key |-> IF alg \in HMACs THEN o.secret ELSE o.public,
                 size |-> IF alg \in DOMAIN keySize THEN 2 * keySize[alg] ELSE 0]

\* The verdict that was given is right.
Right(r) ==
    LET t == req[r].in.token
    IN  CASE req[r].verdict = "accept" -> Good(t, Options, req[r].now)
          [] req[r].verdict = "reject" ->
               IF req[r].now = Never THEN \A now \in Times : ~ Good(t, Options, now)
               ELSE ~ Good(t, Options, req[r].now)
          [] OTHER -> FALSE

\* Where a request stands to JWTAuth.
AtJWT(q) == q.at <= Len(chain) /\ chain[q.at].mw = "JWTAuth"
Past(q) == \A k \in Of("JWTAuth") : k < q.at

\* What is known of a token at each point of JWTAuth, before it and after it.
TokenKnown(r) ==
    LET q == req[r]
        t == q.in.token
    IN  /\ q.alg = "decode" => t.form = "jwt"
        /\ q.alg \notin {"none", "decode"} => HeaderGood(t, Options) /\ q.alg = Headers[t.hdr].alg
        /\ q.pc = "claims" => /\ AtJWT(q) /\ q.verdict = "none"
                              /\ HeaderGood(t, Options) /\ SignatureGood(t, Options)
        /\ IF q.verdict = "none" THEN q.now = Never
           ELSE Right(r) /\ (q.pc = "done" \/ (q.pc = "frame" /\ Past(q)))

\* The memo has a header that JWTAuth accepts, with its algorithm.
MemoKnown ==
    headerMemo # NoMemo =>
       LET h == Headers[headerMemo.hdr]
       IN  h.decodes /\ ~ h.crit /\ h.alg \in Options.algs /\ headerMemo.alg = h.alg

Verdicts == MemoKnown /\ \A r \in Request : req[r] # Idle => TokenKnown(r)

\* There is one JWTAuth, and its options are Options.
LEMMA OptionsAre ==
    ASSUME Typed, NEW q, q.at \in Nat \ {0}, AtJWT(q)
    PROVE  /\ chain[q.at] = Options /\ ~ Past(q) /\ Constructs(Options) /\ Options.skew \in Nat
<1>1. Len(chain) \in Nat /\ q.at \in Of("JWTAuth")
  BY ChainsAssumption DEF Typed, ChainsAssumption, AtJWT, Of
<1>2. \A k \in Of("JWTAuth") : k = q.at
  BY <1>1, ChainsAssumption DEF Typed, ChainsAssumption, Of
<1>3. (CHOOSE k \in Of("JWTAuth") : TRUE) = q.at
  BY <1>1, <1>2
<1> QED
  BY <1>1, <1>3, ChainsAssumption DEF Typed, ChainsAssumption, Options, Past, Of

\* A signature is accepted exactly if it is good, and no key is of the wrong kind.
LEMMA AcceptsGood ==
    ASSUME Typed, NEW r \in Request, Busy(req[r]), AtJWT(req[r]),
           HeaderGood(req[r].in.token, Options), req[r].alg = Headers[req[r].in.token.hdr].alg
    PROVE  /\ Accepts(r) <=> SignatureGood(req[r].in.token, Options)
           /\ req[r].alg \notin HMACs => FitsPublic(r, req[r].alg)
<1> DEFINE t == req[r].in.token
           alg == req[r].alg
           o == Options
<1>1. opts(r) = o /\ Constructs(o)
  BY OptionsAre DEF opts, Busy
<1>2. TokenOK(t) /\ t.form = "jwt" /\ alg \in o.algs
  BY ClientsAssumption DEF ClientsAssumption, Busy, Typed, HeaderGood
<1>3. \/ alg \in HMACs
      \/ alg \in RSAs /\ o.public = "RSA"
      \/ alg \in DOMAIN Curve /\ o.public = Curve[alg]
  BY <1>1, <1>2 DEF Constructs
<1>4. DOMAIN Curve = {"ES256", "ES384", "ES512"} /\ DOMAIN keySize = DOMAIN Curve
  BY DEF Curve, keySize
<1>5. \A x \in DOMAIN Curve : Curve[x] \notin {"nil", "RSA"}
  BY DEF Curve
<1>6. HMACs \cap (RSAs \cup DOMAIN Curve) = {} /\ RSAs \cap DOMAIN Curve = {}
      /\ "undecodable" \notin HMACs \cup RSAs \cup DOMAIN Curve
  BY <1>4 DEF HMACs, RSAs
<1>7. CASE alg \in HMACs
  <2>1. alg \notin DOMAIN keySize /\ alg # "undecodable"
    BY <1>4, <1>6, <1>7
  <2> DEFINE given == [alg |-> alg, key |-> o.secret, over |-> <<<<t.hdr, t.claims>>>>, size |-> 0]
  <2>2. SignatureGood(t, o) <=> t.sig = given
    BY <1>7, <2>1 DEF SignatureGood
  <2>3. SignedHMAC(r, alg) <=> t.sig = given
    BY <1>1 DEF SignedHMAC
  <2>4. given.alg = alg
    OBVIOUS
  <2> HIDE DEF given
  <2>5. Accepts(r) <=> SignatureGood(t, o)
    BY <1>7, <2>1, <2>2, <2>3, <2>4 DEF Accepts
  <2> QED
    BY <1>7, <2>5
<1>8. CASE alg \notin HMACs
  <2>1. FitsPublic(r, alg)
    BY <1>1, <1>3, <1>5, <1>6, <1>8 DEF FitsPublic
  <2>2. t.sig = [alg |-> t.sig.alg, key |-> t.sig.key, over |-> t.sig.over, size |-> t.sig.size]
        /\ (t.sig.alg \notin DOMAIN keySize => t.sig.size = 0)
    BY <1>2 DEF TokenOK
  <2>3. SignatureGood(t, o) <=> /\ t.sig.alg = alg /\ t.sig.key = o.public
                                /\ t.sig.over = <<<<t.hdr, t.claims>>>>
                                /\ t.sig.size = IF alg \in DOMAIN keySize THEN 2 * keySize[alg] ELSE 0
    <3> DEFINE size == IF alg \in DOMAIN keySize THEN 2 * keySize[alg] ELSE 0
               over == <<<<t.hdr, t.claims>>>>
    <3>1. SignatureGood(t, o)
             <=> t.sig = [alg |-> alg, key |-> o.public, over |-> over, size |-> size]
      BY <1>8 DEF SignatureGood
    <3> HIDE DEF size, over, t
    <3>2. t.sig = [alg |-> alg, key |-> o.public, over |-> over, size |-> size]
             <=> t.sig.alg = alg /\ t.sig.key = o.public /\ t.sig.over = over /\ t.sig.size = size
      BY <2>2
    <3> QED
      BY <3>1, <3>2 DEF size, over
  <2>4. Accepts(r) <=> SignatureGood(t, o)
    BY <1>1, <1>3, <1>4, <1>6, <1>8, <2>2, <2>3 DEF Accepts, SignedPublic
  <2> QED
    BY <2>1, <2>4
<1> QED
  BY <1>7, <1>8

\* What is not good about a token makes it bad at any time, and the payload decides
\* about the others.
LEMMA GoodIs ==
    ASSUME NEW t, TokenOK(t), NEW now \in Nat, Options.skew \in Nat
    PROVE  Good(t, Options, now) <=> /\ HeaderGood(t, Options) /\ SignatureGood(t, Options)
                                     /\ ~ Refused(t.claims, Options, now)
<1> DEFINE o == Options
           c == t.claims
           InForce == /\ c.decodes /\ c.iat >= 0
                      /\ IF c.exp = 0 THEN ~ o.requireExpiry ELSE c.exp > 0 /\ now - o.skew <= c.exp
                      /\ c.nbf \in 0..(now + o.skew)
                      /\ o.issuers = {} \/ c.iss \in o.issuers
                      /\ o.audiences = {} \/ \E a \in c.aud : a \in o.audiences
<1>1. Good(t, o, now) <=> HeaderGood(t, o) /\ SignatureGood(t, o) /\ InForce
  BY DEF Good, HeaderGood, SignatureGood
<1>2. ASSUME t.form = "jwt" PROVE InForce <=> ~ Refused(c, o, now)
  <2>1. c.exp \in Int /\ c.nbf \in Int /\ c.iat \in Int /\ o.skew \in Nat
    BY <1>2 DEF TokenOK
  <2>2. c.iat >= 0 <=> ~ (c.iat < 0)
    BY <2>1
  <2>3. c.nbf \in 0..(now + o.skew) <=> ~ (c.nbf < 0) /\ ~ (c.nbf # 0 /\ now + o.skew < c.nbf)
    BY <2>1
  <2>4. (IF c.exp = 0 THEN ~ o.requireExpiry ELSE c.exp > 0 /\ now - o.skew <= c.exp)
        <=> /\ ~ (c.exp < 0) /\ ~ (o.requireExpiry /\ c.exp = 0)
            /\ ~ (c.exp # 0 /\ now > c.exp + o.skew)
    BY <2>1
  <2>5. (\E a \in c.aud : a \in o.audiences) <=> c.aud \cap o.audiences # {}
    OBVIOUS
  <2> HIDE DEF c, o
  <2> QED
    BY <2>2, <2>3, <2>4, <2>5 DEF Refused
<1> QED
  BY <1>1, <1>2 DEF HeaderGood

\* What is known of the tokens of the others stays known.
LEMMA OthersKnown ==
    ASSUME Verdicts, NEW r \in Request, OthersKeep(r), MemoKnown',
           req'[r] # Idle => TokenKnown(r)'
    PROVE  Verdicts'
<1>1. ASSUME NEW s \in Request \ {r}, req'[s] # Idle PROVE TokenKnown(s)'
  <2>1. req'[s] = req[s] /\ chain' = chain
    BY DEF OthersKeep
  <2>2. TokenKnown(s)
    BY <1>1, <2>1 DEF Verdicts
  <2> QED
    BY <2>1, <2>2 DEF TokenKnown, AtJWT, Past, Right, Options, Of
<1> QED
  BY <1>1 DEF Verdicts

\* The memo stays known if it is not written.
LEMMA MemoLeft ==
    ASSUME MemoKnown, UNCHANGED <<headerMemo, chain>> PROVE MemoKnown'
BY DEF MemoKnown, Options, Of

\* A step before JWTAuth, or after it.
LEMMA TokenLeft ==
    ASSUME Typed, NEW r \in Request, Busy(req[r]), req'[r].in = req[r].in, chain' = chain,
           TokenKnown(r), LeavesToken(r)
    PROVE  TokenKnown(r)'
<1> DEFINE q == req[r]
           u == req'[r]
           t == q.in.token
<1>1. u.alg = q.alg /\ u.now = q.now /\ u.verdict = q.verdict /\ u.in.token = t
      /\ q.pc = "frame" /\ u.pc \in {"frame", "done"} /\ u.at \in {q.at, q.at + 1}
  BY DEF LeavesToken
<1>2. Options' = Options /\ Of("JWTAuth")' = Of("JWTAuth")
  BY DEF Options, Of
<1>3. u.alg = "decode" => t.form = "jwt"
  BY <1>1 DEF TokenKnown
<1>4. u.alg \notin {"none", "decode"} => HeaderGood(t, Options) /\ u.alg = Headers[t.hdr].alg
  BY <1>1 DEF TokenKnown
<1>5. CASE q.verdict = "none"
  <2>1. u.now = Never
    BY <1>1, <1>5 DEF TokenKnown
  <2> QED
    BY <1>1, <1>2, <1>3, <1>4, <1>5, <2>1 DEF TokenKnown, HeaderGood
<1>6. CASE q.verdict # "none"
  <2>1. Right(r) /\ Past(q)
    BY <1>1, <1>6 DEF TokenKnown
  <2>2. Right(r)'
    BY <1>1, <1>2, <2>1 DEF Right
  <2>3. Past(req[r])'
    <3>1. q.at \in Nat /\ \A k \in Of("JWTAuth") : k \in Int
      BY DEF Busy, Of
    <3> QED
      BY <1>1, <1>2, <2>1, <3>1 DEF Past
  <2> QED
    BY <1>1, <1>2, <1>3, <1>4, <1>6, <2>2, <2>3 DEF TokenKnown, HeaderGood
<1> QED
  BY <1>5, <1>6

\* A request in JWTAuth has no verdict, since it has one only past it.
LEMMA NotJudged ==
    ASSUME Typed, NEW r \in Request, TokenKnown(r), In(r, "JWTAuth")
    PROVE  /\ Busy(req[r]) /\ AtJWT(req[r]) /\ req[r].verdict = "none" /\ req[r].now = Never
           /\ opts(r) = Options /\ Constructs(Options) /\ Options.skew \in Nat
           /\ TokenOK(req[r].in.token) /\ Never \notin Nat /\ Times \subseteq Nat
<1>1. Busy(req[r]) /\ AtJWT(req[r]) /\ req[r].pc = "frame"
  BY IdleIs DEF In, Typed, LocalOK, AtJWT
<1>2. chain[req[r].at] = Options /\ ~ Past(req[r]) /\ Constructs(Options) /\ Options.skew \in Nat
  BY <1>1, OptionsAre DEF Busy
<1>3. TokenOK(req[r].in.token)
  BY <1>1, ClientsAssumption DEF ClientsAssumption, Busy, Typed
<1>4. Never \notin Nat /\ Times \subseteq Nat
  BY GatesAssumption DEF GatesAssumption, Never
<1> QED
  BY <1>1, <1>2, <1>3, <1>4 DEF TokenKnown, opts

\* A refusal before the claims are looked at is right if the token is bad at any time.
LEMMA RefusedRight ==
    ASSUME Typed, NEW r \in Request, TokenKnown(r), In(r, "JWTAuth"), Rejected(r), chain' = chain,
           req'[r].in = req[r].in,
           ~ (HeaderGood(req[r].in.token, Options) /\ SignatureGood(req[r].in.token, Options))
    PROVE  TokenKnown(r)'
<1> DEFINE t == req[r].in.token
<1>1. /\ TokenOK(t) /\ Times \subseteq Nat /\ Options.skew \in Nat /\ req[r].now = Never
  BY NotJudged
<1>2. \A now \in Times : ~ Good(t, Options, now)
  BY <1>1, GoodIs
<1>3. /\ req'[r].alg = req[r].alg /\ req'[r].now = Never /\ req'[r].pc = "done"
      /\ req'[r].verdict = "reject" /\ req'[r].in.token = t
  BY <1>1 DEF Rejected, Same
<1>4. Options' = Options
  BY DEF Options, Of
<1>5. Right(r)'
  BY <1>2, <1>3, <1>4 DEF Right
<1>6. /\ req'[r].alg = "decode" => t.form = "jwt"
      /\ req'[r].alg \notin {"none", "decode"} => HeaderGood(t, Options)
                                                  /\ req'[r].alg = Headers[t.hdr].alg
  BY <1>3 DEF TokenKnown
<1> QED
  BY <1>3, <1>4, <1>5, <1>6 DEF TokenKnown, HeaderGood

\* LoadMemo takes the algorithm of a header that is the token's own.
LEMMA LoadMemoKeeps ==
    ASSUME Typed, Verdicts, NEW r \in Request, LoadMemo(r), chain' = chain, TokenKnown(r),
           req'[r].in = req[r].in
    PROVE  MemoKnown' /\ TokenKnown(r)'
<1> DEFINE t == req[r].in.token
<1>1. /\ In(r, "JWTAuth") /\ req[r].alg = "none" /\ UNCHANGED <<headerMemo, hashes>>
      /\ IF t.form # "jwt" THEN Rejected(r)
         ELSE LoadsAlg(r, IF Hits(t.hdr) THEN headerMemo.alg ELSE "decode")
  BY LoadMemoIs
<1>2. req[r].verdict = "none" /\ req[r].now = Never /\ req[r].pc = "frame"
  BY <1>1, NotJudged DEF In
<1>3. MemoKnown'
  BY <1>1, MemoLeft DEF Verdicts
<1>4. Options' = Options
  BY DEF Options, Of
<1>5. CASE t.form # "jwt"
  BY <1>1, <1>3, <1>5, RefusedRight DEF HeaderGood
<1>6. CASE t.form = "jwt"
  <2>1. /\ req'[r].verdict = "none" /\ req'[r].now = Never /\ req'[r].pc = "frame"
        /\ req'[r].in.token = t
        /\ req'[r].alg = IF Hits(t.hdr) THEN headerMemo.alg ELSE "decode"
    BY <1>1, <1>2, <1>6 DEF LoadsAlg
  <2>2. Hits(t.hdr) => HeaderGood(t, Options) /\ headerMemo.alg = Headers[t.hdr].alg
    BY <1>6 DEF Hits, Verdicts, MemoKnown, HeaderGood
  <2> QED
    BY <1>3, <1>4, <1>6, <2>1, <2>2 DEF TokenKnown, HeaderGood
<1> QED
  BY <1>5, <1>6

\* Decode stores the header that it accepted.
LEMMA DecodeKeeps ==
    ASSUME Typed, Verdicts, NEW r \in Request, Decode(r), chain' = chain, TokenKnown(r),
           req'[r].in = req[r].in
    PROVE  MemoKnown' /\ TokenKnown(r)'
<1> DEFINE t == req[r].in.token
           h == Headers[t.hdr]
           bad == ~ h.decodes \/ h.alg \notin Options.algs \/ h.crit
<1>1. In(r, "JWTAuth") /\ req[r].alg = "decode"
  BY DecodeIs
<1>2. /\ req[r].verdict = "none" /\ req[r].now = Never /\ req[r].pc = "frame" /\ opts(r) = Options
  BY <1>1, NotJudged DEF In
<1>3. IF bad THEN Rejected(r) /\ UNCHANGED headerMemo
      ELSE LoadsAlg(r, h.alg) /\ headerMemo' = [hdr |-> t.hdr, alg |-> h.alg]
  BY <1>2, DecodeIs
<1>4. Options' = Options /\ t.form = "jwt"
  BY <1>1 DEF Options, Of, TokenKnown
<1>5. CASE bad
  <2>1. ~ HeaderGood(t, Options)
    BY <1>5 DEF HeaderGood
  <2> QED
    BY <1>1, <1>3, <1>5, <2>1, MemoLeft, RefusedRight DEF Verdicts
<1>6. CASE ~ bad
  <2>1. /\ req'[r].verdict = "none" /\ req'[r].now = Never /\ req'[r].pc = "frame"
        /\ req'[r].in.token = t /\ req'[r].alg = h.alg
        /\ headerMemo' = [hdr |-> t.hdr, alg |-> h.alg]
    BY <1>2, <1>3, <1>6 DEF LoadsAlg
  <2>2. HeaderGood(t, Options)
    BY <1>4, <1>6 DEF HeaderGood
  <2>3. MemoKnown'
    BY <1>4, <1>6, <2>1 DEF MemoKnown
  <2> QED
    BY <1>4, <2>1, <2>2, <2>3 DEF TokenKnown, HeaderGood
<1> QED
  BY <1>5, <1>6

\* Verify decides as the signature is good or not, and does not panic.
LEMMA VerifyKeeps ==
    ASSUME Typed, Verdicts, NEW r \in Request, Verify(r), chain' = chain, TokenKnown(r),
           req'[r].in = req[r].in
    PROVE  MemoKnown' /\ TokenKnown(r)'
<1> DEFINE t == req[r].in.token
<1>1. In(r, "JWTAuth") /\ req[r].alg \notin {"none", "decode"} /\ UNCHANGED headerMemo
  BY VerifyIs
<1>2. /\ Busy(req[r]) /\ AtJWT(req[r]) /\ req[r].verdict = "none" /\ req[r].now = Never
  BY <1>1, NotJudged
<1>3. HeaderGood(t, Options) /\ req[r].alg = Headers[t.hdr].alg
  BY <1>1 DEF TokenKnown
<1>4. /\ Accepts(r) <=> SignatureGood(t, Options)
      /\ req[r].alg \notin HMACs => FitsPublic(r, req[r].alg)
  BY <1>2, <1>3, AcceptsGood
<1>5. \/ Rejected(r) /\ ~ Accepts(r)
      \/ Same(r) /\ req'[r].pc = "claims" /\ req'[r].verdict = req[r].verdict /\ Accepts(r)
  BY <1>4, VerifyIs
<1>6. MemoKnown'
  BY <1>1, MemoLeft DEF Verdicts
<1>7. CASE Rejected(r) /\ ~ Accepts(r)
  BY <1>1, <1>4, <1>6, <1>7, RefusedRight
<1>8. CASE Same(r) /\ req'[r].pc = "claims" /\ req'[r].verdict = req[r].verdict /\ Accepts(r)
  <2>1. /\ req'[r].verdict = "none" /\ req'[r].now = Never /\ req'[r].pc = "claims"
        /\ req'[r].in.token = t /\ req'[r].alg = req[r].alg /\ req'[r].at = req[r].at
    BY <1>2, <1>8 DEF Same
  <2>2. Options' = Options /\ AtJWT(req[r])'
    BY <1>2, <2>1 DEF Options, Of, AtJWT
  <2> QED
    BY <1>1, <1>3, <1>4, <1>6, <1>8, <2>1, <2>2 DEF TokenKnown, HeaderGood, SignatureGood
<1> QED
  BY <1>5, <1>7, <1>8

\* Claims decides for a token whose header and signature are good.
LEMMA ClaimsKeeps ==
    ASSUME Typed, Verdicts, NEW r \in Request, Claims(r), chain' = chain, TokenKnown(r),
           req'[r].in = req[r].in
    PROVE  MemoKnown' /\ TokenKnown(r)'
<1> DEFINE t == req[r].in.token
<1>1. req[r].pc = "claims" /\ UNCHANGED <<headerMemo, hashes>> /\ req'[r].alg = req[r].alg
  BY ClaimsIs
<1>2. /\ AtJWT(req[r]) /\ HeaderGood(t, Options) /\ SignatureGood(t, Options)
  BY <1>1 DEF TokenKnown
<1>3. Busy(req[r])
  BY <1>1, IdleIs DEF Typed, LocalOK
<1>4. opts(r) = Options /\ Options.skew \in Nat
  BY <1>2, <1>3, OptionsAre DEF Busy, opts
<1>5. TokenOK(t) /\ Times \subseteq Nat /\ Never \notin Nat
  BY <1>3, ClientsAssumption, GatesAssumption
     DEF ClientsAssumption, GatesAssumption, Busy, Typed, Never
<1>6. PICK now \in Times :
        /\ req'[r].now = now
        /\ IF Refused(t.claims, Options, now)
           THEN req'[r].pc = "done" /\ req'[r].verdict = "reject" /\ req'[r].at = req[r].at
           ELSE req'[r].pc = "frame" /\ req'[r].verdict = "accept" /\ req'[r].at = req[r].at + 1
  BY <1>4, ClaimsIs
<1>7. now \in Nat /\ now # Never
  BY <1>5
<1>8. Good(t, Options, now) <=> ~ Refused(t.claims, Options, now)
  BY <1>2, <1>4, <1>5, <1>7, GoodIs
<1>9. Options' = Options /\ Of("JWTAuth")' = Of("JWTAuth") /\ req'[r].in.token = t
  BY DEF Options, Of
<1>10. Right(r)'
  BY <1>6, <1>7, <1>8, <1>9 DEF Right
<1>11. req'[r].pc = "frame" => Past(req[r])'
  <2> SUFFICES ASSUME req'[r].at = req[r].at + 1 PROVE Past(req[r])'
    BY <1>6
  <2>1. \A k \in Of("JWTAuth") : k = req[r].at
    <3>1. Len(chain) \in Nat /\ req[r].at \in Of("JWTAuth")
      BY <1>2, <1>3, ChainsAssumption DEF Typed, ChainsAssumption, AtJWT, Of, Busy
    <3> QED
      BY <3>1, ChainsAssumption DEF Typed, ChainsAssumption, Of
  <2>2. req[r].at \in Nat
    BY <1>3 DEF Busy
  <2> QED
    BY <1>9, <2>1, <2>2 DEF Past
<1>12. MemoKnown'
  BY <1>1, MemoLeft DEF Verdicts
<1>13. /\ req'[r].pc # "claims" /\ req'[r].verdict # "none"
       /\ req'[r].pc = "done" \/ req'[r].pc = "frame"
       /\ req'[r].alg = "decode" => t.form = "jwt"
       /\ req'[r].alg \notin {"none", "decode"} => HeaderGood(t, Options)
                                                   /\ req'[r].alg = Headers[t.hdr].alg
  BY <1>1, <1>6 DEF TokenKnown
<1> QED
  BY <1>9, <1>10, <1>11, <1>12, <1>13 DEF TokenKnown, HeaderGood

\* Every step keeps what is known of the memo and the tokens.
LEMMA VerdictsStep == Typed /\ Verdicts /\ [Next]_vars => Verdicts'
<1> SUFFICES ASSUME Typed, Verdicts, [Next]_vars PROVE Verdicts'
  OBVIOUS
<1>1. ASSUME NEW r \in Request, Arrive(r) PROVE Verdicts'
  <2>1. OthersKeep(r) /\ UNCHANGED headerMemo
    BY <1>1, ArriveLocal DEF shared
  <2>2. /\ req'[r].pc = "frame" /\ req'[r].alg = "none" /\ req'[r].verdict = "none"
        /\ req'[r].now = Never
    <3>1. PICK in \in Clients(chain) :
             req'[r] = [pc |-> "frame", at |-> 1, in |-> in, addr |-> in.peer,
                        id |-> <<>>, buf |-> <<>>, alg |-> "none", now |-> Never,
                        verdict |-> "none", hdr |-> <<>>, writes |-> 0]
      BY <1>1, ArriveLocal
    <3> QED
      BY <3>1
  <2>3. TokenKnown(r)'
    BY <2>2 DEF TokenKnown
  <2>4. MemoKnown'
    BY <2>1, MemoLeft DEF Verdicts, OthersKeep
  <2> QED
    BY <2>1, <2>3, <2>4, OthersKnown
<1>2. ASSUME NEW r \in Request, Step(r) PROVE Verdicts'
  <2>1. OthersKeep(r) /\ chain' = chain /\ Busy(req[r]) /\ TokenKnown(r)
        /\ (req'[r] = Idle \/ req'[r].in = req[r].in)
    BY <1>2, StepMoves, IdleIs DEF OthersKeep, Verdicts
  <2>2. CASE req'[r] = Idle
    <3>1. UNCHANGED headerMemo
      <4>1. req'[r].pc = "idle"
        BY <2>2, IdleIs
      <4>2. ~ Decode(r)
        BY <4>1, DecodeIs DEF Rejected, LoadsAlg, In
      <4> QED
        BY <1>2, <4>2 DEF Step, SetHeader, NoCache, CORS, Draw, RequestID, RealIP, LoadMemo, Verify,
                          Claims, Handler, Finish, Respond, shared
    <3> QED
      BY <2>1, <2>2, <3>1, MemoLeft, OthersKnown DEF Verdicts
  <2>3. CASE req'[r] # Idle /\ ~ Finish(r)
    <3>1. req'[r].in = req[r].in
      BY <2>1, <2>3
    <3>2. CASE SetHeader(r) \/ NoCache(r) \/ CORS(r) \/ Handler(r) \/ RealIP(r) \/ Draw(r) \/ RequestID(r)
      <4>1. LeavesToken(r)
        BY <3>2, ResponseSteps, RealIPStep, IdSteps
      <4>2. MemoKnown'
        BY <2>1, <4>1, MemoLeft DEF LeavesToken, Verdicts
      <4> QED
        BY <2>1, <3>1, <4>1, <4>2, TokenLeft, OthersKnown
    <3>3. CASE LoadMemo(r) \/ Decode(r)
      BY <2>1, <3>1, <3>3, LoadMemoKeeps, DecodeKeeps, OthersKnown
    <3>4. CASE Verify(r) \/ Claims(r)
      BY <2>1, <3>1, <3>4, VerifyKeeps, ClaimsKeeps, OthersKnown
    <3> QED
      BY <1>2, <2>3, <3>2, <3>3, <3>4 DEF Step
  <2>4. Finish(r) => req'[r] = Idle
    BY DEF Finish, Typed
  <2> QED
    BY <2>2, <2>3, <2>4
<1>3. CASE Collect \/ UNCHANGED vars
  <2>1. UNCHANGED <<chain, headerMemo, req>>
    BY <1>3 DEF Collect, vars
  <2>2. \A s \in Request : TokenKnown(s)' <=> TokenKnown(s)
    BY <2>1 DEF TokenKnown, AtJWT, Past, Right, Options, Of
  <2> QED
    BY <2>1, <2>2, MemoLeft DEF Verdicts
<1> QED
  BY <1>1, <1>2, <1>3 DEF Next

\* There is no memo and no token before the first request.
LEMMA VerdictsInit == Init => Verdicts
BY DEF Init, Verdicts, MemoKnown

\* The verdict on a token is that of the token, for any chain, any tokens and any
\* number of requests (JWTAuth, headerMemo and jwtHMACPool): it is accepted only if its
\* header, its signature and its claims are good, and refused only if they are not.
THEOREM VerdictsExact == Spec => []VerdictExact
<1>1. Spec => [](Typed /\ Verdicts)
  BY TypedInit, TypedStep, VerdictsInit, VerdictsStep, PTL DEF Spec
<1>2. Typed /\ Verdicts => VerdictExact
  <2> SUFFICES ASSUME Typed, Verdicts, NEW r \in Request, Active(r), req[r].verdict # "none"
               PROVE  Right(r)
    BY DEF VerdictExact, Right, Options
  <2>1. req[r] # Idle
    BY IdleIs DEF Active
  <2> QED
    BY <2>1 DEF Verdicts, TokenKnown
<1> QED
  BY <1>1, <1>2, PTL

-----------------------------------------------------------------------------
(* Response headers.                                                       *)

\* Texts of headers: any string, and those that the middleware and the handler write
\* (the provers do not know of a literal that it is a string).
Texts == STRING \cup {"", "h", "*", "id", "no-store", "no-cache", "0", "Origin", "Credentials",
                       "Expose", "Methods", "MaxAge", "Vary", "Cache-Control", "Pragma", "Expires",
                       "X-Request-Id"}

\* A slice of one of the arrays, and the values that it has.
SliceOK(arrays, s, r) ==
    /\ s = [own |-> r, arr |-> s.arr, at |-> s.at, len |-> s.len, cap |-> s.cap]
    /\ s.arr \in 1..Len(arrays) /\ s.at \in Nat \ {0} /\ s.len \in Nat \ {0} /\ s.cap \in Nat
    /\ s.len <= s.cap /\ s.at + s.cap <= Len(arrays[s.arr]) + 1
Holds(arrays, s, w) ==
    /\ w \in Seq(Texts) /\ Len(w) = s.len
    /\ \A i \in 1..s.len : arrays[s.arr][s.at + i - 1] = w[i]

\* Two slices share no element, not even in the room that an append may use.
Apart(s, t) == s.arr # t.arr \/ s.at + s.cap <= t.at \/ t.at + t.cap <= s.at

\* The headers hdr of r have the values w, each in a part of its own of r's arrays.
Own(arrays, hdr, w, r) ==
    /\ arrays \in Seq(Seq(Texts)) /\ DOMAIN hdr = DOMAIN w
    /\ \A k \in DOMAIN hdr : SliceOK(arrays, hdr[k], r) /\ Holds(arrays, hdr[k], w[k])
    /\ \A k, l \in DOMAIN hdr : k # l => Apart(hdr[k], hdr[l])

\* Every request owns its headers.
Headed ==
    /\ DOMAIN heap = Request \cup {Hoisted} /\ DOMAIN want = Request
    /\ \A r \in Request : IF req[r] = Idle THEN heap[r] = <<>> /\ want[r] = <<>>
                          ELSE Own(heap[r], req[r].hdr, want[r], r)

\* A response of r, and one made of it: no other request's arrays are touched.
Answers(p, r) == /\ DOMAIN p = {"heap", "hdr", "want"} /\ DOMAIN p.heap = Request \cup {Hoisted}
                 /\ Own(p.heap[r], p.hdr, p.want, r)
Edits(p, u, r) == Answers(u, r) /\ \A s \in Request \ {r} : u.heap[s] = p.heap[s]

\* A new array moves no slice.
LEMMA ArrayAdded ==
    ASSUME NEW arrays \in Seq(Seq(Texts)), NEW a \in Seq(Texts)
    PROVE  /\ Append(arrays, a) \in Seq(Seq(Texts)) /\ Append(arrays, a)[Len(arrays) + 1] = a
           /\ Len(Append(arrays, a)) = Len(arrays) + 1 /\ Len(arrays) \in Nat
           /\ \A s, r : SliceOK(arrays, s, r) =>
                 /\ SliceOK(Append(arrays, a), s, r)
                 /\ \A w : Holds(arrays, s, w) => Holds(Append(arrays, a), s, w)
<1> DEFINE S == Seq(Texts)
<1>1. arrays \in Seq(S) /\ a \in S
  OBVIOUS
<1> HIDE DEF S
<1>2. /\ Append(arrays, a) \in Seq(S) /\ Append(arrays, a)[Len(arrays) + 1] = a
      /\ Len(Append(arrays, a)) = Len(arrays) + 1 /\ Len(arrays) \in Nat
      /\ \A i \in 1..Len(arrays) : Append(arrays, a)[i] = arrays[i]
  BY <1>1
<1>3. ASSUME NEW s, NEW r, SliceOK(arrays, s, r)
      PROVE  /\ SliceOK(Append(arrays, a), s, r)
             /\ \A w : Holds(arrays, s, w) => Holds(Append(arrays, a), s, w)
  <2>1. Append(arrays, a)[s.arr] = arrays[s.arr] /\ s.arr \in 1..(Len(arrays) + 1)
    BY <1>2, <1>3 DEF SliceOK
  <2>2. SliceOK(Append(arrays, a), s, r)
    BY <1>2, <1>3, <2>1 DEF SliceOK
  <2>3. \A w : Holds(arrays, s, w) => Holds(Append(arrays, a), s, w)
    BY <2>1 DEF Holds
  <2> QED
    BY <2>2, <2>3
<1> QED
  BY <1>2, <1>3 DEF S

\* What SetFresh makes of p: one new array, and a slice of it for each key.
FreshOf(u, p, r, ks, vs) ==
    /\ DOMAIN u = {"heap", "hdr", "want"} /\ u.heap = [p.heap EXCEPT ![r] = Append(@, vs)]
    /\ DOMAIN u.hdr = DOMAIN p.hdr \cup ToSet(ks) /\ DOMAIN u.want = DOMAIN p.want \cup ToSet(ks)
    /\ \A x \in ToSet(ks) : \E i \in 1..Len(ks) :
          /\ ks[i] = x /\ u.want[x] = <<vs[i]>>
          /\ u.hdr[x] = [own |-> r, arr |-> Len(p.heap[r]) + 1, at |-> i, len |-> 1, cap |-> 1]
    /\ \A x \in DOMAIN p.hdr \ ToSet(ks) : u.hdr[x] = p.hdr[x]
    /\ \A x \in DOMAIN p.want \ ToSet(ks) : u.want[x] = p.want[x]

\* That is what it makes, for any keys and values.
LEMMA SetFreshIs ==
    ASSUME NEW p, NEW r, NEW ks \in Seq(Texts), NEW vs
    PROVE  FreshOf(SetFresh(p, r, ks, vs), p, r, ks, vs)
<1> DEFINE u == SetFresh(p, r, ks, vs)
           At(x) == CHOOSE i \in 1..Len(ks) : ks[i] = x
<1>1. u = [heap |-> [p.heap EXCEPT ![r] = Append(@, vs)],
           hdr |-> [x \in DOMAIN p.hdr \cup ToSet(ks) |->
                      IF x \in ToSet(ks) THEN Slice(r, Len(p.heap[r]) + 1, At(x)) ELSE p.hdr[x]],
           want |-> [x \in DOMAIN p.want \cup ToSet(ks) |->
                      IF x \in ToSet(ks) THEN <<vs[At(x)]>> ELSE p.want[x]]]
  BY DEF SetFresh, Set
<1>2. \A x \in ToSet(ks) : At(x) \in 1..Len(ks) /\ ks[At(x)] = x
  BY DEF ToSet
<1> HIDE DEF At
<1>3. \A x \in ToSet(ks) : /\ u.want[x] = <<vs[At(x)]>>
                           /\ u.hdr[x] = Slice(r, Len(p.heap[r]) + 1, At(x))
  BY <1>1
<1>4. \A x \in ToSet(ks) : \E i \in 1..Len(ks) :
         /\ ks[i] = x /\ u.want[x] = <<vs[i]>>
         /\ u.hdr[x] = [own |-> r, arr |-> Len(p.heap[r]) + 1, at |-> i, len |-> 1, cap |-> 1]
  BY <1>2, <1>3 DEF Slice
<1> QED
  BY <1>1, <1>4 DEF FreshOf

\* The slices of a new array are apart from each other and from the older ones.
LEMMA FreshKeeps ==
    ASSUME NEW p, NEW r \in Request, Answers(p, r),
           NEW ks \in Seq(Texts), NEW vs \in Seq(Texts), Len(vs) = Len(ks)
    PROVE  Edits(p, SetFresh(p, r, ks, vs), r)
<1> DEFINE u == SetFresh(p, r, ks, vs)
           arrays == p.heap[r]
           new == Append(arrays, vs)
           n == Len(arrays) + 1
<1>1. /\ DOMAIN u = {"heap", "hdr", "want"} /\ u.heap = [p.heap EXCEPT ![r] = Append(@, vs)]
      /\ DOMAIN u.hdr = DOMAIN p.hdr \cup ToSet(ks) /\ DOMAIN u.want = DOMAIN p.want \cup ToSet(ks)
      /\ \A x \in ToSet(ks) : \E i \in 1..Len(ks) :
            /\ ks[i] = x /\ u.want[x] = <<vs[i]>>
            /\ u.hdr[x] = [own |-> r, arr |-> n, at |-> i, len |-> 1, cap |-> 1]
      /\ \A x \in DOMAIN p.hdr \ ToSet(ks) : u.hdr[x] = p.hdr[x]
      /\ \A x \in DOMAIN p.want \ ToSet(ks) : u.want[x] = p.want[x]
  <2>1. FreshOf(u, p, r, ks, vs)
    BY SetFreshIs
  <2> QED
    BY <2>1 DEF FreshOf
<1>2. /\ arrays \in Seq(Seq(Texts)) /\ DOMAIN p.hdr = DOMAIN p.want
      /\ \A k \in DOMAIN p.hdr : SliceOK(arrays, p.hdr[k], r) /\ Holds(arrays, p.hdr[k], p.want[k])
      /\ \A k, l \in DOMAIN p.hdr : k # l => Apart(p.hdr[k], p.hdr[l])
      /\ DOMAIN p.heap = Request \cup {Hoisted}
  BY DEF Answers, Own
<1>3. u.heap[r] = new /\ DOMAIN u.heap = Request \cup {Hoisted}
      /\ \A s \in Request \ {r} : u.heap[s] = p.heap[s]
  BY <1>1, <1>2
<1>4. /\ new \in Seq(Seq(Texts)) /\ new[n] = vs /\ Len(new) = n /\ n \in Nat \ {0}
      /\ \A s : SliceOK(arrays, s, r) =>
            /\ SliceOK(new, s, r) /\ \A w : Holds(arrays, s, w) => Holds(new, s, w)
  BY <1>2, ArrayAdded
<1> HIDE DEF u, new
<1>5. ASSUME NEW x \in ToSet(ks)
      PROVE  SliceOK(new, u.hdr[x], r) /\ Holds(new, u.hdr[x], u.want[x])
             /\ u.hdr[x].arr = n /\ u.hdr[x].cap = 1 /\ u.hdr[x].at \in 1..Len(ks)
             /\ ks[u.hdr[x].at] = x
  <2>1. PICK i \in 1..Len(ks) :
            /\ ks[i] = x /\ u.want[x] = <<vs[i]>>
            /\ u.hdr[x] = [own |-> r, arr |-> n, at |-> i, len |-> 1, cap |-> 1]
    BY <1>1
  <2> DEFINE s == u.hdr[x]
  <2>2. s = [own |-> r, arr |-> n, at |-> i, len |-> 1, cap |-> 1] /\ u.want[x] = <<vs[i]>>
    BY <2>1
  <2> HIDE DEF s
  <2>3. i \in Nat \ {0} /\ i <= Len(vs) /\ Len(new[n]) = Len(vs) /\ vs[i] \in Texts
        /\ Len(vs) \in Nat
    BY <1>4
  <2>4. SliceOK(new, s, r)
    BY <1>4, <2>2, <2>3 DEF SliceOK
  <2>5. Holds(new, s, u.want[x])
    <3>1. <<vs[i]>> \in Seq(Texts) /\ Len(<<vs[i]>>) = 1 /\ <<vs[i]>>[1] = vs[i]
      BY <2>3
    <3>2. s.len = 1 /\ s.at = i /\ s.arr = n
      BY <2>2
    <3>3. \A j \in 1..1 : j = 1 /\ s.at + j - 1 = i
      BY <2>3, <3>2
    <3> QED
      BY <1>4, <2>2, <3>1, <3>2, <3>3 DEF Holds
  <2> QED
    BY <2>1, <2>2, <2>4, <2>5 DEF s
<1>6. ASSUME NEW x \in DOMAIN u.hdr \ ToSet(ks)
      PROVE  SliceOK(new, u.hdr[x], r) /\ Holds(new, u.hdr[x], u.want[x])
             /\ u.hdr[x] = p.hdr[x] /\ x \in DOMAIN p.hdr /\ u.hdr[x].arr \in 1..(n - 1)
  <2>1. x \in DOMAIN p.hdr /\ u.hdr[x] = p.hdr[x] /\ u.want[x] = p.want[x]
    BY <1>1, <1>2
  <2>2. SliceOK(arrays, p.hdr[x], r) /\ Holds(arrays, p.hdr[x], p.want[x])
    BY <1>2, <2>1
  <2>3. p.hdr[x].arr \in 1..(n - 1)
    <3>1. p.hdr[x].arr \in 1..Len(arrays)
      BY <2>2 DEF SliceOK
    <3> QED
      BY <1>2, <3>1
  <2> QED
    BY <1>4, <2>1, <2>2, <2>3
<1>7. ASSUME NEW k \in DOMAIN u.hdr, NEW l \in DOMAIN u.hdr, k # l PROVE Apart(u.hdr[k], u.hdr[l])
  <2>1. CASE k \in ToSet(ks) /\ l \in ToSet(ks)
    <3> DEFINE i == u.hdr[k].at
               j == u.hdr[l].at
    <3>1. i \in 1..Len(ks) /\ j \in 1..Len(ks) /\ i # j
      BY <1>5, <1>7, <2>1
    <3>2. u.hdr[k].cap = 1 /\ u.hdr[l].cap = 1
      BY <1>5, <2>1
    <3> QED
      BY <3>1, <3>2 DEF Apart
  <2>2. CASE k \in ToSet(ks) /\ l \notin ToSet(ks)
    BY <1>4, <1>5, <1>6, <2>2 DEF Apart
  <2>3. CASE k \notin ToSet(ks) /\ l \in ToSet(ks)
    BY <1>4, <1>5, <1>6, <2>3 DEF Apart
  <2>4. CASE k \notin ToSet(ks) /\ l \notin ToSet(ks)
    BY <1>2, <1>6, <1>7, <2>4
  <2> QED
    BY <2>1, <2>2, <2>3, <2>4
<1>8. Own(u.heap[r], u.hdr, u.want, r)
  BY <1>1, <1>2, <1>3, <1>4, <1>5, <1>6, <1>7 DEF Own
<1> QED
  BY <1>1, <1>3, <1>8 DEF Edits, Answers, u

\* One element of an array is written: the slices apart from it keep their values.
LEMMA ElementWritten ==
    ASSUME NEW arrays \in Seq(Seq(Texts)), NEW a \in 1..Len(arrays), NEW i \in 1..Len(arrays[a]),
           NEW v \in Texts
    PROVE  LET new == [arrays EXCEPT ![a][i] = v]
           IN  /\ new \in Seq(Seq(Texts)) /\ new[a][i] = v
               /\ \A s, r : SliceOK(arrays, s, r) => SliceOK(new, s, r)
               /\ \A b \in 1..Len(arrays) : \A j \in 1..Len(arrays[b]) :
                     b # a \/ j # i => new[b][j] = arrays[b][j]
<1> DEFINE new == [arrays EXCEPT ![a][i] = v]
           S == Seq(Texts)
           row == [arrays[a] EXCEPT ![i] = v]
<1>1. arrays \in Seq(S) /\ arrays[a] \in S
  OBVIOUS
<1>2. row \in S /\ Len(row) = Len(arrays[a]) /\ row[i] = v
      /\ \A j \in 1..Len(arrays[a]) : j # i => row[j] = arrays[a][j]
  <2> DEFINE old == arrays[a]
  <2>1. old \in Seq(Texts) /\ i \in 1..Len(old)
    BY <1>1
  <2> HIDE DEF old
  <2>2. [old EXCEPT ![i] = v] \in Seq(Texts)
    BY <2>1, ExceptSeq
  <2>3. Len([old EXCEPT ![i] = v]) = Len(old)
    BY <2>1, ExceptSeq
  <2>4. \A j \in 1..Len(old) : [old EXCEPT ![i] = v][j] = IF j = i THEN v ELSE old[j]
    <3>1. DOMAIN old = 1..Len(old)
      BY <2>1
    <3> QED
      BY <2>1, <3>1
  <2> QED
    BY <2>1, <2>2, <2>3, <2>4 DEF old
<1>3. new = [arrays EXCEPT ![a] = row]
  OBVIOUS
<1> HIDE DEF S, row, new
<1>4. /\ new \in Seq(S) /\ Len(new) = Len(arrays) /\ new[a] = row
      /\ \A b \in 1..Len(arrays) : b # a => new[b] = arrays[b]
  BY <1>1, <1>2, <1>3
<1>5. \A b \in 1..Len(arrays) : Len(new[b]) = Len(arrays[b])
  BY <1>2, <1>4
<1>6. \A s, r : SliceOK(arrays, s, r) => SliceOK(new, s, r)
  BY <1>4, <1>5 DEF SliceOK
<1> QED
  BY <1>2, <1>4, <1>6 DEF S, new

\* No slice moves.
LEMMA SliceKept ==
    ASSUME NEW arrays \in Seq(Seq(Texts)), NEW a \in 1..Len(arrays), NEW i \in 1..Len(arrays[a]),
           NEW v \in Texts, NEW t, NEW r, SliceOK(arrays, t, r)
    PROVE  SliceOK([arrays EXCEPT ![a][i] = v], t, r)
BY ElementWritten

\* The text of a header is its values.
LEMMA TextIs ==
    ASSUME NEW p, NEW r, NEW s, NEW w, SliceOK(p.heap[r], s, r), Holds(p.heap[r], s, w)
    PROVE  Text(p, s) = w
<1> DEFINE row == p.heap[r][s.arr]
           m == s.at
           n == s.at + s.len - 1
<1>1. s.own = r /\ m \in Nat \ {0} /\ s.len \in Nat \ {0} /\ n \in Int /\ n - m + 1 = s.len /\ m <= n
  BY DEF SliceOK
<1>2. w \in Seq(Texts) /\ Len(w) = s.len /\ \A i \in 1..s.len : row[m + i - 1] = w[i]
  BY DEF Holds
<1>3. Text(p, s) = SubSeq(row, m, n)
  BY <1>1 DEF Text
<1> HIDE DEF row, m, n
<1>4. \A i \in m..n : row[i] \in Texts
  <2> SUFFICES ASSUME NEW i \in m..n PROVE row[i] \in Texts
    OBVIOUS
  <2>1. i - m + 1 \in 1..s.len /\ m + (i - m + 1) - 1 = i
    BY <1>1
  <2>2. row[i] = w[i - m + 1]
    BY <1>2, <2>1
  <2> QED
    BY <1>2, <2>1, <2>2
<1>5. SubSeq(row, m, n) \in Seq(Texts) /\ Len(SubSeq(row, m, n)) = s.len
  BY <1>1, <1>4, SubSeqProperties
<1>6. \A i \in 1..s.len : SubSeq(row, m, n)[i] = w[i]
  BY <1>1, <1>2, <1>4, SubSeqProperties
<1>7. SubSeq(row, m, n) = w
  BY <1>2, <1>5, <1>6, SeqEqual
<1> QED
  BY <1>3, <1>7

\* g is f with one value set.
Sets(f, g, k, v) == DOMAIN g = DOMAIN f /\ g[k] = v /\ \A l \in DOMAIN f \ {k} : g[l] = f[l]

\* One header changes, in a part of the arrays that is apart from the others.
LEMMA OneKey ==
    ASSUME NEW arrays, NEW hdr, NEW w, NEW r, Own(arrays, hdr, w, r), NEW k \in DOMAIN hdr,
           NEW new \in Seq(Seq(Texts)), NEW s, NEW x, SliceOK(new, s, r), Holds(new, s, x),
           \A l \in DOMAIN hdr \ {k} : /\ SliceOK(new, hdr[l], r) /\ Holds(new, hdr[l], w[l])
                                       /\ Apart(s, hdr[l]),
           NEW h, NEW y, Sets(hdr, h, k, s), Sets(w, y, k, x)
    PROVE  Own(new, h, y, r)
<1>1. /\ DOMAIN h = DOMAIN hdr /\ DOMAIN y = DOMAIN hdr /\ h[k] = s /\ y[k] = x
      /\ \A l \in DOMAIN hdr \ {k} : h[l] = hdr[l] /\ y[l] = w[l]
  BY DEF Own, Sets
<1>2. \A l \in DOMAIN h : SliceOK(new, h[l], r) /\ Holds(new, h[l], y[l])
  BY <1>1
<1>3. \A l, m \in DOMAIN h : l # m => Apart(h[l], h[m])
  <2> SUFFICES ASSUME NEW l \in DOMAIN h, NEW m \in DOMAIN h, l # m PROVE Apart(h[l], h[m])
    OBVIOUS
  <2>1. CASE l # k /\ m # k
    BY <1>1, <2>1 DEF Own
  <2>2. CASE l = k
    BY <1>1, <2>2
  <2>3. CASE m = k
    BY <1>1, <2>3 DEF Apart
  <2> QED
    BY <2>1, <2>2, <2>3
<1> QED
  BY <1>1, <1>2, <1>3 DEF Own

\* An interval within another.
LEMMA Within ==
    ASSUME NEW n \in Nat, NEW at \in Nat \ {0}, NEW cap \in Nat, at + cap <= n + 1,
           NEW i \in 0..(cap - 1)
    PROVE  at + i \in 1..n
OBVIOUS

\* Where a slice is, in numbers.
LEMMA Numbers ==
    ASSUME NEW arrays \in Seq(Seq(Texts)), NEW s, NEW r, SliceOK(arrays, s, r)
    PROVE  /\ s.arr \in 1..Len(arrays) /\ Len(arrays) \in Nat /\ Len(arrays[s.arr]) \in Nat
           /\ s.at \in Nat \ {0} /\ s.len \in Nat \ {0} /\ s.cap \in Nat /\ s.len <= s.cap
           /\ s.at + s.cap <= Len(arrays[s.arr]) + 1 /\ s.own = r
           /\ \A i \in 0..(s.cap - 1) : s.at + i \in 1..Len(arrays[s.arr])
<1>1. /\ s.arr \in 1..Len(arrays) /\ Len(arrays) \in Nat /\ Len(arrays[s.arr]) \in Nat
      /\ s.at \in Nat \ {0} /\ s.len \in Nat \ {0} /\ s.cap \in Nat /\ s.len <= s.cap
      /\ s.at + s.cap <= Len(arrays[s.arr]) + 1 /\ s.own = r
  BY DEF SliceOK
<1>2. ASSUME NEW i \in 0..(s.cap - 1) PROVE s.at + i \in 1..Len(arrays[s.arr])
  <2>1. Len(arrays[s.arr]) \in Nat
    BY <1>1
  <2> QED
    BY <1>1, <2>1, Within
<1> QED
  BY <1>1, <1>2

\* An element of one slice's part is written: the others keep their values.
LEMMA OthersHold ==
    ASSUME NEW arrays \in Seq(Seq(Texts)), NEW r, NEW s, NEW t, NEW w, NEW i \in 0..(s.cap - 1),
           NEW v \in Texts, SliceOK(arrays, s, r), SliceOK(arrays, t, r), Apart(s, t),
           Holds(arrays, t, w)
    PROVE  Holds([arrays EXCEPT ![s.arr][s.at + i] = v], t, w)
<1> DEFINE new == [arrays EXCEPT ![s.arr][s.at + i] = v]
<1>1. s.arr \in 1..Len(arrays) /\ s.at + i \in 1..Len(arrays[s.arr])
  BY Numbers
<1>2. \A b \in 1..Len(arrays) : \A j \in 1..Len(arrays[b]) :
         b # s.arr \/ j # s.at + i => new[b][j] = arrays[b][j]
  BY <1>1, ElementWritten
<1> HIDE DEF new
<1>3. ASSUME NEW j \in 1..t.len PROVE new[t.arr][t.at + j - 1] = w[j]
  <2>1. t.arr \in 1..Len(arrays) /\ Len(arrays[t.arr]) \in Nat
    BY Numbers
  <2>2. t.at + j - 1 \in 1..Len(arrays[t.arr])
    <3>1. /\ t.at \in Nat \ {0} /\ t.len \in Nat /\ t.cap \in Nat /\ t.len <= t.cap
          /\ \A k \in 0..(t.cap - 1) : t.at + k \in 1..Len(arrays[t.arr])
      BY Numbers
    <3>2. j - 1 \in 0..(t.cap - 1) /\ t.at + (j - 1) = t.at + j - 1
      BY ONLY <3>1, j \in 1..t.len
    <3> QED
      BY <3>1, <3>2
  <2>3. t.arr # s.arr \/ t.at + j - 1 # s.at + i
    BY SMTT(30) DEF SliceOK, Apart
  <2>4. arrays[t.arr][t.at + j - 1] = w[j]
    BY DEF Holds
  <2> QED
    BY <1>2, <2>1, <2>2, <2>3, <2>4
<1> QED
  BY <1>3 DEF Holds, new

\* append in the room of the slice: the element after it.
LEMMA InPlaceKeeps ==
    ASSUME NEW arrays \in Seq(Seq(Texts)), NEW s, NEW r, NEW w, NEW v \in Texts,
           SliceOK(arrays, s, r), Holds(arrays, s, w), s.len < s.cap
    PROVE  LET new == [arrays EXCEPT ![s.arr][s.at + s.len] = v]
               u == [s EXCEPT !.len = s.len + 1]
           IN  /\ new \in Seq(Seq(Texts)) /\ SliceOK(new, u, r) /\ Holds(new, u, Append(w, v))
               /\ u.arr = s.arr /\ u.at = s.at /\ u.cap = s.cap
<1> DEFINE i == s.at + s.len
           new == [arrays EXCEPT ![s.arr][i] = v]
           u == [s EXCEPT !.len = s.len + 1]
<1>1. /\ s.arr \in 1..Len(arrays) /\ Len(arrays) \in Nat /\ Len(arrays[s.arr]) \in Nat
      /\ s.at \in Nat \ {0} /\ s.len \in Nat \ {0} /\ s.cap \in Nat
      /\ \A j \in 0..(s.cap - 1) : s.at + j \in 1..Len(arrays[s.arr])
  BY Numbers
<1>2. s.len \in 0..(s.cap - 1) /\ i \in 1..Len(arrays[s.arr])
  <2>1. s.len \in 0..(s.cap - 1)
    BY ONLY <1>1, s.len < s.cap
  <2> QED
    BY <1>1, <2>1
<1>3. /\ new \in Seq(Seq(Texts)) /\ new[s.arr][i] = v /\ SliceOK(new, s, r)
      /\ \A j \in 1..Len(arrays[s.arr]) : j # i => new[s.arr][j] = arrays[s.arr][j]
  <2> HIDE DEF i
  <2>1. new \in Seq(Seq(Texts)) /\ new[s.arr][i] = v
    BY <1>1, <1>2, ElementWritten
  <2>2. SliceOK(new, s, r)
    BY <1>1, <1>2, ElementWritten
  <2>3. \A b \in 1..Len(arrays) : \A j \in 1..Len(arrays[b]) :
           b # s.arr \/ j # i => new[b][j] = arrays[b][j]
    BY <1>1, <1>2, ElementWritten
  <2> QED
    BY <1>1, <2>1, <2>2, <2>3
<1>4. u = [own |-> r, arr |-> s.arr, at |-> s.at, len |-> s.len + 1, cap |-> s.cap]
  <2> DEFINE aa == s.arr
             at == s.at
             ll == s.len
             cc == s.cap
  <2>1. s = [own |-> r, arr |-> aa, at |-> at, len |-> ll, cap |-> cc]
    BY DEF SliceOK
  <2> HIDE DEF aa, at, ll, cc
  <2>2. u = [own |-> r, arr |-> aa, at |-> at, len |-> ll + 1, cap |-> cc]
    BY <2>1
  <2> QED
    BY <2>2 DEF aa, at, ll, cc
<1> HIDE DEF new, u
<1>5. SliceOK(new, u, r)
  <2>1. /\ s.arr \in 1..Len(new) /\ s.at + s.cap <= Len(new[s.arr]) + 1
    BY <1>3 DEF SliceOK
  <2>2. s.len + 1 \in Nat \ {0} /\ s.len + 1 <= s.cap
    BY <1>1
  <2> QED
    BY <1>1, <1>4, <2>1, <2>2 DEF SliceOK
<1>6. /\ w \in Seq(Texts) /\ Len(w) = s.len /\ Append(w, v) \in Seq(Texts)
      /\ Len(Append(w, v)) = s.len + 1 /\ Append(w, v)[s.len + 1] = v
      /\ \A j \in 1..s.len : Append(w, v)[j] = w[j]
  BY DEF Holds
<1>7. ASSUME NEW j \in 1..(s.len + 1) PROVE new[s.arr][s.at + j - 1] = Append(w, v)[j]
  <2>1. CASE j = s.len + 1
    <3>1. s.at + j - 1 = i
      BY <1>1, <2>1
    <3> QED
      BY <1>3, <1>6, <2>1, <3>1
  <2>2. CASE j \in 1..s.len
    <3> HIDE DEF i
    <3>0. s.at \in Nat /\ s.len \in Nat /\ s.cap \in Nat /\ s.len < s.cap /\ i = s.at + s.len
      BY <1>1 DEF i
    <3>1. j - 1 \in 0..(s.cap - 1) /\ s.at + j - 1 = s.at + (j - 1) /\ s.at + j - 1 # i
      BY ONLY <3>0, <2>2
    <3>2. arrays[s.arr][s.at + j - 1] = w[j]
      BY <2>2 DEF Holds
    <3> QED
      BY <1>1, <1>3, <1>6, <2>2, <3>1, <3>2
  <2>3. j = s.len + 1 \/ j \in 1..s.len
    BY <1>1
  <2> QED
    BY <2>1, <2>2, <2>3
<1>8. Holds(new, u, Append(w, v))
  BY <1>4, <1>6, <1>7 DEF Holds
<1> QED
  BY <1>3, <1>4, <1>5, <1>8 DEF new, u

\* append without room: a new array, twice as long.
LEMMA GrowthKeeps ==
    ASSUME NEW arrays \in Seq(Seq(Texts)), NEW r, NEW w \in Seq(Texts), NEW v \in Texts,
           Len(w) \in Nat \ {0}
    PROVE  LET n == Len(w)
               a == [i \in 1..(2 * n) |-> IF i <= n THEN w[i] ELSE IF i = n + 1 THEN v ELSE ""]
               u == [own |-> r, arr |-> Len(arrays) + 1, at |-> 1, len |-> n + 1, cap |-> 2 * n]
           IN  /\ a \in Seq(Texts) /\ SliceOK(Append(arrays, a), u, r)
               /\ Holds(Append(arrays, a), u, Append(w, v))
<1> DEFINE n == Len(w)
           a == [i \in 1..(2 * n) |-> IF i <= n THEN w[i] ELSE IF i = n + 1 THEN v ELSE ""]
           u == [own |-> r, arr |-> Len(arrays) + 1, at |-> 1, len |-> n + 1, cap |-> 2 * n]
           new == Append(arrays, a)
           x == Append(w, v)
<1>1. n \in Nat \ {0} /\ 2 * n \in Nat /\ n + 1 <= 2 * n
  OBVIOUS
<1>2. a \in [1..(2 * n) -> Texts]
  <2>1. \A i \in 1..n : w[i] \in Texts
    BY ElementOfSeq
  <2> HIDE DEF n
  <2>2. \A i \in 1..(2 * n) : i <= n => i \in 1..n
    BY <1>1
  <2>3. ASSUME NEW i \in 1..(2 * n)
        PROVE  (IF i <= n THEN w[i] ELSE IF i = n + 1 THEN v ELSE "") \in Texts
    <3>1. CASE i <= n
      BY <2>1, <2>2, <3>1
    <3>2. CASE ~ (i <= n)
      BY <3>2 DEF Texts
    <3> QED
      BY <3>1, <3>2
  <2> QED
    BY <2>3
<1>3. a \in Seq(Texts) /\ Len(a) = 2 * n
  <2> HIDE DEF a, n
  <2> QED
    BY <1>1, <1>2
<1>4. \A j \in 1..(n + 1) : a[j] = IF j <= n THEN w[j] ELSE v
  <2> HIDE DEF n
  <2>1. \A j \in 1..(n + 1) : j \in 1..(2 * n) /\ (j <= n \/ j = n + 1)
    BY <1>1
  <2> QED
    BY <2>1
<1>5. /\ u.own = r /\ u.arr = Len(arrays) + 1 /\ u.at = 1 /\ u.len = n + 1 /\ u.cap = 2 * n
      /\ u = [own |-> r, arr |-> u.arr, at |-> u.at, len |-> u.len, cap |-> u.cap]
  OBVIOUS
<1>6. /\ x \in Seq(Texts) /\ Len(x) = n + 1 /\ x[n + 1] = v /\ \A j \in 1..n : x[j] = w[j]
  <2>1. x \in Seq(Texts) /\ Len(x) = n + 1 /\ x[n + 1] = v
    OBVIOUS
  <2>2. \A j \in 1..n : x[j] = w[j]
    BY AppendProperties
  <2> QED
    BY <2>1, <2>2
<1> HIDE DEF a, u
<1>7. /\ Len(new) = Len(arrays) + 1 /\ new[Len(arrays) + 1] = a /\ Len(arrays) \in Nat
  BY <1>3, ArrayAdded
<1> HIDE DEF n, new, x
<1>8. SliceOK(new, u, r)
  BY <1>1, <1>3, <1>5, <1>7 DEF SliceOK
<1>9. Holds(new, u, x)
  <2>1. \A j \in 1..(n + 1) : /\ u.at + j - 1 = j
                              /\ (j \in 1..n /\ j <= n) \/ (j = n + 1 /\ ~ (j <= n))
    BY <1>1, <1>5
  <2>2. \A j \in 1..(n + 1) : a[j] = x[j]
    BY <1>4, <1>6, <2>1
  <2>3. \A j \in 1..(n + 1) : new[u.arr][u.at + j - 1] = x[j]
    BY <1>5, <1>7, <2>1, <2>2
  <2> QED
    BY <1>5, <1>6, <2>3 DEF Holds
<1> QED
  BY <1>3, <1>8, <1>9 DEF n, a, u, new, x

\* What is known of a response of r.
LEMMA AnswerIs ==
    ASSUME NEW p, NEW r \in Request, Answers(p, r)
    PROVE  /\ p.heap[r] \in Seq(Seq(Texts)) /\ DOMAIN p.want = DOMAIN p.hdr
           /\ DOMAIN p = {"heap", "hdr", "want"} /\ DOMAIN p.heap = Request \cup {Hoisted}
           /\ \A k \in DOMAIN p.hdr : SliceOK(p.heap[r], p.hdr[k], r)
                                      /\ Holds(p.heap[r], p.hdr[k], p.want[k])
           /\ \A k, l \in DOMAIN p.hdr : k # l => Apart(p.hdr[k], p.hdr[l])
BY DEF Answers, Own

\* The arrays and one header of r change.
Changed(p, u, r, k, arrays, s, w) ==
    /\ DOMAIN u = {"heap", "hdr", "want"} /\ u.heap = [p.heap EXCEPT ![r] = arrays]
    /\ Sets(p.hdr, u.hdr, k, s) /\ Sets(p.want, u.want, k, w)

\* They stay r's own if the header is apart from the others.
LEMMA ChangedKeeps ==
    ASSUME NEW p, NEW u, NEW r \in Request, Answers(p, r), NEW k \in DOMAIN p.hdr,
           NEW arrays \in Seq(Seq(Texts)), NEW s, NEW w, Changed(p, u, r, k, arrays, s, w),
           SliceOK(arrays, s, r), Holds(arrays, s, w),
           \A l \in DOMAIN p.hdr \ {k} : /\ SliceOK(arrays, p.hdr[l], r)
                                         /\ Holds(arrays, p.hdr[l], p.want[l])
                                         /\ Apart(s, p.hdr[l])
    PROVE  Edits(p, u, r)
<1>1. Own(arrays, u.hdr, u.want, r)
  BY OneKey DEF Answers, Changed
<1>2. u.heap[r] = arrays /\ DOMAIN u.heap = Request \cup {Hoisted}
      /\ \A t \in Request \ {r} : u.heap[t] = p.heap[t]
  BY AnswerIs DEF Changed
<1> QED
  BY <1>1, <1>2 DEF Edits, Answers, Changed

\* An append to one header of r leaves the others alone.
LEMMA AppendKeeps ==
    ASSUME NEW p, NEW r \in Request, Answers(p, r), NEW k \in DOMAIN p.hdr, NEW v \in Texts
    PROVE  Edits(p, AppendValue(p, r, k, v), r)
<1> DEFINE u == AppendValue(p, r, k, v)
           arrays == p.heap[r]
           s == p.hdr[k]
           w == p.want[k]
           x == Append(w, v)
<1>1. /\ arrays \in Seq(Seq(Texts)) /\ SliceOK(arrays, s, r) /\ Holds(arrays, s, w)
      /\ \A l \in DOMAIN p.hdr : SliceOK(arrays, p.hdr[l], r) /\ Holds(arrays, p.hdr[l], p.want[l])
      /\ \A l \in DOMAIN p.hdr \ {k} : Apart(s, p.hdr[l])
  BY AnswerIs
<1>2. s.own = r /\ s.len \in Nat \ {0} /\ s.cap \in Nat /\ r \in DOMAIN p.heap
  BY <1>1, Numbers, AnswerIs
<1>3. CASE s.len < s.cap
  <2> DEFINE i == s.at + s.len
             new == [arrays EXCEPT ![s.arr][i] = v]
             t == [s EXCEPT !.len = s.len + 1]
  <2>1. /\ new \in Seq(Seq(Texts)) /\ SliceOK(new, t, r) /\ Holds(new, t, x)
        /\ t.arr = s.arr /\ t.at = s.at /\ t.cap = s.cap
    BY <1>1, <1>3, InPlaceKeeps
  <2>2. Changed(p, u, r, k, new, t, x)
    <3>1. u = [heap |-> [p.heap EXCEPT ![s.own][s.arr][i] = v],
               hdr |-> [p.hdr EXCEPT ![k] = t], want |-> [p.want EXCEPT ![k] = x]]
      <4>1. u.heap = [p.heap EXCEPT ![s.own][s.arr][i] = v]
        BY <1>3 DEF AppendValue
      <4>2. u.hdr = [p.hdr EXCEPT ![k] = t]
        BY <1>3 DEF AppendValue
      <4>3. u.want = [p.want EXCEPT ![k] = x]
        BY DEF AppendValue
      <4>4. u = [heap |-> u.heap, hdr |-> u.hdr, want |-> u.want]
        BY DEF AppendValue
      <4> QED
        BY <4>1, <4>2, <4>3, <4>4
    <3>2. [p.heap EXCEPT ![s.own][s.arr][i] = v] = [p.heap EXCEPT ![r] = new]
      BY <1>2
    <3>3. k \in DOMAIN p.want
      BY AnswerIs
    <3> HIDE DEF t, u, x, new
    <3>4. DOMAIN u = {"heap", "hdr", "want"} /\ u.heap = [p.heap EXCEPT ![r] = new]
      BY <3>1, <3>2
    <3>5. u.hdr = [p.hdr EXCEPT ![k] = t] /\ u.want = [p.want EXCEPT ![k] = x]
      BY <3>1
    <3> QED
      BY <3>3, <3>4, <3>5 DEF Changed, Sets
  <2> HIDE DEF t, u, x
  <2>3. ASSUME NEW l \in DOMAIN p.hdr \ {k}
        PROVE  SliceOK(new, p.hdr[l], r) /\ Holds(new, p.hdr[l], p.want[l]) /\ Apart(t, p.hdr[l])
    <3>1. s.len \in 0..(s.cap - 1)
      BY ONLY <1>2, <1>3
    <3>2. Holds(new, p.hdr[l], p.want[l])
      BY <1>1, <3>1, OthersHold
    <3>3. s.arr \in 1..Len(arrays) /\ i \in 1..Len(arrays[s.arr])
      <4>1. /\ s.arr \in 1..Len(arrays)
            /\ \A j \in 0..(s.cap - 1) : s.at + j \in 1..Len(arrays[s.arr])
        BY <1>1, Numbers
      <4> QED
        BY <3>1, <4>1
    <3> HIDE DEF i
    <3>4. SliceOK(new, p.hdr[l], r)
      BY <1>1, <3>3, SliceKept
    <3>5. Apart(t, p.hdr[l])
      BY <1>1, <2>1 DEF Apart
    <3> QED
      BY <3>2, <3>4, <3>5
  <2> HIDE DEF new
  <2> QED
    BY <2>1, <2>2, <2>3, ChangedKeeps DEF u
<1>4. CASE ~ (s.len < s.cap)
  <2> DEFINE n == Len(w)
             a == [i \in 1..(2 * n) |-> IF i <= n THEN w[i] ELSE IF i = n + 1 THEN v ELSE ""]
             t == [own |-> r, arr |-> Len(arrays) + 1, at |-> 1, len |-> n + 1, cap |-> 2 * n]
             new == Append(arrays, a)
  <2>1. w \in Seq(Texts) /\ n = s.len /\ Text(p, s) = w
    BY <1>1, TextIs DEF Holds
  <2>2. a \in Seq(Texts) /\ SliceOK(new, t, r) /\ Holds(new, t, x)
    BY <1>1, <1>2, <2>1, GrowthKeeps
  <2>3. Changed(p, u, r, k, new, t, x)
    <3>1. u = [heap |-> [p.heap EXCEPT ![r] = new], hdr |-> [p.hdr EXCEPT ![k] = t],
               want |-> [p.want EXCEPT ![k] = x]]
      BY <1>2, <1>4, <2>1 DEF AppendValue
    <3>2. k \in DOMAIN p.want
      BY AnswerIs
    <3> HIDE DEF t, u, x, new
    <3>3. DOMAIN u = {"heap", "hdr", "want"} /\ u.heap = [p.heap EXCEPT ![r] = new]
          /\ u.hdr = [p.hdr EXCEPT ![k] = t] /\ u.want = [p.want EXCEPT ![k] = x]
      BY <3>1
    <3> QED
      BY <3>2, <3>3 DEF Changed, Sets
  <2>4. t.arr = Len(arrays) + 1
    OBVIOUS
  <2> HIDE DEF a, t, u, x
  <2>5. new \in Seq(Seq(Texts)) /\ Len(arrays) \in Nat
    BY <1>1, <2>2, ArrayAdded
  <2>6. ASSUME NEW l \in DOMAIN p.hdr \ {k}
        PROVE  SliceOK(new, p.hdr[l], r) /\ Holds(new, p.hdr[l], p.want[l]) /\ Apart(t, p.hdr[l])
    <3>1. SliceOK(arrays, p.hdr[l], r) /\ Holds(arrays, p.hdr[l], p.want[l])
      BY <1>1
    <3>2. SliceOK(new, p.hdr[l], r) /\ Holds(new, p.hdr[l], p.want[l])
      BY <1>1, <2>2, <3>1, ArrayAdded
    <3>3. p.hdr[l].arr \in 1..Len(arrays)
      BY <3>1 DEF SliceOK
    <3> QED
      BY <2>4, <2>5, <3>2, <3>3 DEF Apart
  <2> HIDE DEF new
  <2> QED
    BY <2>2, <2>3, <2>5, <2>6, ChangedKeeps DEF u
<1> QED
  BY <1>3, <1>4

\* A write in place of the first value of one header leaves the others alone.
LEMMA WriteKeeps ==
    ASSUME NEW p, NEW r \in Request, Answers(p, r), NEW k \in DOMAIN p.hdr, NEW v \in Texts
    PROVE  Edits(p, WriteValue(p, k, v), r)
<1> DEFINE u == WriteValue(p, k, v)
           arrays == p.heap[r]
           s == p.hdr[k]
           w == p.want[k]
           x == [w EXCEPT ![1] = v]
           i == s.at + 0
           new == [arrays EXCEPT ![s.arr][i] = v]
<1>1. /\ arrays \in Seq(Seq(Texts)) /\ SliceOK(arrays, s, r) /\ Holds(arrays, s, w)
      /\ \A l \in DOMAIN p.hdr : SliceOK(arrays, p.hdr[l], r) /\ Holds(arrays, p.hdr[l], p.want[l])
      /\ \A l \in DOMAIN p.hdr \ {k} : Apart(s, p.hdr[l])
  BY AnswerIs
<1>2. /\ s.own = r /\ s.len \in Nat \ {0} /\ s.cap \in Nat /\ s.len <= s.cap /\ s.at \in Nat
      /\ s.arr \in 1..Len(arrays) /\ \A j \in 0..(s.cap - 1) : s.at + j \in 1..Len(arrays[s.arr])
  BY <1>1, Numbers
<1>3. 0 \in 0..(s.cap - 1) /\ s.at + 0 = s.at
  BY ONLY <1>2
<1>4. Changed(p, u, r, k, new, s, x)
  <2>1. new = [arrays EXCEPT ![s.arr][s.at] = v]
    BY <1>3
  <2>2. DOMAIN p = {"heap", "hdr", "want"} /\ r \in DOMAIN p.heap
    BY AnswerIs
  <2>3. u.heap = [p.heap EXCEPT ![r] = [arrays EXCEPT ![s.arr][s.at] = v]]
    BY <1>2, <2>2 DEF WriteValue
  <2>4. DOMAIN u = {"heap", "hdr", "want"} /\ u.hdr = p.hdr /\ u.want = [p.want EXCEPT ![k] = x]
    BY <2>2 DEF WriteValue
  <2>5. k \in DOMAIN p.want
    BY AnswerIs
  <2> HIDE DEF u, new, x
  <2> QED
    BY <2>1, <2>3, <2>4, <2>5 DEF Changed, Sets
<1>5. /\ new \in Seq(Seq(Texts)) /\ new[s.arr][i] = v
      /\ \A t : SliceOK(arrays, t, r) => SliceOK(new, t, r)
      /\ \A j \in 1..Len(arrays[s.arr]) : j # s.at => new[s.arr][j] = arrays[s.arr][j]
  <2>1. i \in 1..Len(arrays[s.arr])
    BY <1>2, <1>3
  <2>2. i = s.at
    BY <1>3
  <2> HIDE DEF i
  <2>3. new \in Seq(Seq(Texts)) /\ new[s.arr][i] = v
    BY <1>1, <1>2, <2>1, ElementWritten
  <2>4. ASSUME NEW t, SliceOK(arrays, t, r) PROVE SliceOK(new, t, r)
    BY <1>1, <1>2, <2>1, <2>4, SliceKept
  <2>5. \A b \in 1..Len(arrays) : \A j \in 1..Len(arrays[b]) :
           b # s.arr \/ j # i => new[b][j] = arrays[b][j]
    BY <1>1, <1>2, <2>1, ElementWritten, SMTT(30)
  <2> HIDE DEF new
  <2>6. \A j \in 1..Len(arrays[s.arr]) : j # s.at => new[s.arr][j] = arrays[s.arr][j]
    BY <1>2, <2>2, <2>5
  <2> QED
    BY <2>3, <2>4, <2>6
<1>6. ASSUME NEW l \in DOMAIN p.hdr \ {k}
      PROVE  SliceOK(new, p.hdr[l], r) /\ Holds(new, p.hdr[l], p.want[l])
  BY <1>1, <1>3, <1>5, OthersHold
<1> HIDE DEF new, u
<1>7. /\ w \in Seq(Texts) /\ Len(w) = s.len /\ DOMAIN w = 1..s.len
      /\ \A j \in 1..s.len : arrays[s.arr][s.at + j - 1] = w[j]
  BY <1>1 DEF Holds
<1>8. x \in Seq(Texts) /\ Len(x) = s.len /\ x[1] = v /\ \A j \in 1..s.len : j # 1 => x[j] = w[j]
  <2>1. 1 \in 1..Len(w)
    BY <1>2, <1>7
  <2>2. x \in Seq(Texts)
    BY <1>7, <2>1, ExceptSeq
  <2>3. Len(x) = Len(w)
    BY <1>7, <2>1, ExceptSeq
  <2> QED
    BY <1>7, <2>1, <2>2, <2>3
<1> HIDE DEF x
<1>9. Holds(new, s, x)
  <2>1. ASSUME NEW j \in 1..s.len, j # 1 PROVE new[s.arr][s.at + j - 1] = x[j]
    <3>1. j - 1 \in 0..(s.cap - 1) /\ s.at + (j - 1) = s.at + j - 1 /\ s.at + j - 1 # s.at
      BY ONLY <1>2, <2>1
    <3>2. s.at + j - 1 \in 1..Len(arrays[s.arr])
      BY <1>2, <3>1
    <3> QED
      BY <1>5, <1>7, <1>8, <2>1, <3>1, <3>2
  <2>2. new[s.arr][s.at + 1 - 1] = x[1]
    <3>1. s.at + 1 - 1 = i
      BY <1>2
    <3> HIDE DEF i
    <3> QED
      BY <1>5, <1>8, <3>1
  <2> QED
    BY <1>8, <2>1, <2>2 DEF Holds
<1> QED
  BY <1>1, <1>4, <1>5, <1>6, <1>9, ChangedKeeps DEF u

\* A request's own headers change, and no other's.
LEMMA HeadedKept ==
    ASSUME Headed, NEW r \in Request, OthersKeep(r),
           DOMAIN heap' = Request \cup {Hoisted}, DOMAIN want' = Request,
           \A s \in Request \ {r} : heap'[s] = heap[s] /\ want'[s] = want[s],
           IF req'[r] = Idle THEN heap'[r] = <<>> /\ want'[r] = <<>>
           ELSE Own(heap'[r], req'[r].hdr, want'[r], r)
    PROVE  Headed'
BY DEF Headed, OthersKeep

\* A response that r makes of its own.
LEMMA EditKept ==
    ASSUME Headed, NEW r \in Request, OthersKeep(r), req'[r] # Idle, NEW p,
           Edits(Response(r), p, r),
           heap' = p.heap, want' = [want EXCEPT ![r] = p.want], req'[r].hdr = p.hdr
    PROVE  Headed'
<1>1. Response(r).heap = heap
  BY DEF Response
<1>2. /\ DOMAIN heap' = Request \cup {Hoisted} /\ Own(heap'[r], req'[r].hdr, p.want, r)
      /\ \A s \in Request \ {r} : heap'[s] = heap[s]
  BY <1>1 DEF Edits, Answers
<1>3. DOMAIN want' = Request /\ want'[r] = p.want /\ \A s \in Request \ {r} : want'[s] = want[s]
  BY DEF Headed
<1> QED
  BY <1>2, <1>3, HeadedKept

\* What r has answered is its own.
LEMMA ResponseIs ==
    ASSUME Headed, NEW r \in Request, req[r] # Idle
    PROVE  Answers(Response(r), r) /\ DOMAIN Response(r).hdr = DOMAIN req[r].hdr
<1>1. Own(heap[r], req[r].hdr, want[r], r) /\ DOMAIN heap = Request \cup {Hoisted}
  BY DEF Headed
<1> QED
  BY <1>1 DEF Answers, Response

\* One change after another.
LEMMA EditsTwice ==
    ASSUME NEW p, NEW u, NEW x, NEW r, Edits(p, u, r), Edits(u, x, r) PROVE Edits(p, x, r)
BY DEF Edits

\* The headers that CORS sets.
LEMMA CORSKeysIs ==
    ASSUME NEW o, NEW b PROVE CORSKeys(o, b) \in Seq(Texts)
<1>1. \A what \in Texts : \A on : Allow(what, on) \in Seq(Texts)
  BY DEF Allow
<1>2. /\ "Origin" \in Texts /\ "Credentials" \in Texts /\ "Expose" \in Texts
      /\ "Methods" \in Texts /\ "MaxAge" \in Texts
  BY DEF Texts
<1> DEFINE s1 == <<"Origin">>
           s2 == Allow("Credentials", o.credentials)
           s3 == Allow("Expose", o.exposed)
           s4 == Allow("Methods", b /\ o.methods)
           s5 == Allow("MaxAge", b /\ o.maxAge)
<1>3. /\ s1 \in Seq(Texts) /\ s2 \in Seq(Texts) /\ s3 \in Seq(Texts)
      /\ s4 \in Seq(Texts) /\ s5 \in Seq(Texts)
  BY <1>1, <1>2
<1>4. CORSKeys(o, b) = s1 \o s2 \o s3 \o s4 \o s5
  BY DEF CORSKeys
<1> HIDE DEF s1, s2, s3, s4, s5
<1> QED
  BY <1>3, <1>4, ConcatProperties

\* The middleware and the handler change their own request's headers only.
LEMMA EditsOwn ==
    ASSUME Typed, Headed, NEW r \in Request, SetHeader(r) \/ NoCache(r) \/ CORS(r) \/ Handler(r)
    PROVE  \E p : /\ Edits(Response(r), p, r) /\ heap' = p.heap
                  /\ want' = [want EXCEPT ![r] = p.want] /\ req'[r].hdr = p.hdr
<1> DEFINE q == req[r]
           Made(p) == \E u : Busy(u) /\ Respond(r, p, u)
<1>1. Busy(q) /\ q # Idle
  <2>1. q.pc # "idle"
    BY DEF SetHeader, NoCache, CORS, Handler, In
  <2> QED
    BY <2>1, IdleIs DEF Typed, LocalOK
<1>2. Answers(Response(r), r) /\ DOMAIN Response(r).hdr = DOMAIN q.hdr
  BY <1>1, ResponseIs
<1>3. Busy(Passed(q)) /\ Busy(Answered(q)) /\ \A v : Busy([q EXCEPT !.writes = v])
  BY <1>1, Changes DEF Kept
<1>4. SUFFICES \E p : Edits(Response(r), p, r) /\ Made(p)
  <2> SUFFICES ASSUME NEW p, NEW u, Busy(u), Respond(r, p, u)
               PROVE  /\ heap' = p.heap /\ want' = [want EXCEPT ![r] = p.want] /\ req'[r].hdr = p.hdr
    OBVIOUS
  <2>1. Goes(r, [u EXCEPT !.hdr = p.hdr]) /\ heap' = p.heap /\ want' = [want EXCEPT ![r] = p.want]
    BY DEF Respond, Goes
  <2>2. req'[r] = [u EXCEPT !.hdr = p.hdr]
    BY <2>1, GoesOn
  <2> QED
    BY <2>1, <2>2 DEF Busy, Locals
<1>5. CASE SetHeader(r)
  <2> DEFINE p == SetFresh(Response(r), r, <<opts(r).key>>, <<opts(r).value>>)
  <2>1. opts(r).key \in Texts /\ opts(r).value \in Texts
    <3>1. chain \in Chains /\ Len(chain) \in Nat /\ q.at \in Nat \ {0}
      BY <1>1, ChainsAssumption DEF ChainsAssumption, Typed, Busy
    <3>2. q.at <= Len(chain) /\ chain[q.at].mw = "SetHeader"
      BY <1>5 DEF SetHeader, In
    <3>3. q.at \in 1..Len(chain)
      BY <3>1, <3>2
    <3>4. chain[q.at].key \in STRING /\ chain[q.at].value \in STRING
      BY <3>1, <3>2, <3>3, ChainsAssumption DEF ChainsAssumption
    <3> QED
      BY <3>4 DEF opts, Texts
  <2> DEFINE ks == <<opts(r).key>>
             vs == <<opts(r).value>>
  <2>4. ks \in Seq(Texts) /\ vs \in Seq(Texts) /\ Len(vs) = Len(ks)
    BY <2>1
  <2>2. Edits(Response(r), p, r)
    <3> HIDE DEF ks, vs
    <3>1. Edits(Response(r), SetFresh(Response(r), r, ks, vs), r)
      BY <1>2, <2>4, FreshKeeps
    <3> QED
      BY <3>1 DEF ks, vs
  <2>3. Made(p)
    BY <1>3, <1>5 DEF SetHeader
  <2> QED
    BY <2>2, <2>3
<1>6. CASE NoCache(r)
  <2> DEFINE ks == <<"Cache-Control", "Pragma", "Expires">>
             vs == <<"no-store", "no-cache", "0">>
             p == SetFresh(Response(r), r, ks, vs)
  <2>1. ks \in Seq(Texts) /\ vs \in Seq(Texts) /\ Len(vs) = Len(ks)
    BY DEF Texts
  <2>2. Edits(Response(r), p, r)
    BY <1>2, <2>1, FreshKeeps
  <2>3. Made(p)
    BY <1>3, <1>6 DEF NoCache
  <2> QED
    BY <2>2, <2>3
<1>7. CASE CORS(r)
  <2> DEFINE o == opts(r)
             in == q.in
             p == Response(r)
             ok == in.origin # "invalid" /\ (o.all \/ in.origin \in o.origins)
             ks == IF in.origin # "none" /\ ok THEN CORSKeys(o, in.method = "OPTIONS") ELSE <<>>
             vs == [i \in 1..Len(ks) |-> IF ks[i] = "Origin" /\ ~ o.all THEN in.origin ELSE "*"]
             first == SetFresh(p, r, <<"Vary">> \o ks, <<"Origin">> \o vs)
             again == SetFresh(p, r, ks, vs)
             more == SetFresh(AppendValue(p, r, "Vary", "Origin"), r, ks, vs)
             answer == CASE "Vary" \notin DOMAIN p.hdr -> first
                         [] "Vary" \in DOMAIN p.hdr /\ "Origin" \in ToSet(Text(p, p.hdr["Vary"])) -> again
                         [] OTHER -> more
  <2>1. in.origin \in Texts
    BY <1>1, ClientsAssumption DEF ClientsAssumption, Typed, Busy, Texts
  <2>2. ks \in Seq(Texts) /\ Len(ks) \in Nat
    BY CORSKeysIs
  <2>3. vs \in Seq(Texts) /\ Len(vs) = Len(ks)
    <3> HIDE DEF ks
    <3>1. "*" \in Texts
      BY DEF Texts
    <3>2. vs \in [1..Len(ks) -> Texts]
      BY <2>1, <3>1
    <3> QED
      BY <2>2, <3>2
  <2> HIDE DEF ks, vs
  <2>4. "Vary" \in Texts /\ "Origin" \in Texts
    BY DEF Texts
  <2>5. /\ <<"Vary">> \o ks \in Seq(Texts) /\ <<"Origin">> \o vs \in Seq(Texts)
        /\ Len(<<"Origin">> \o vs) = Len(<<"Vary">> \o ks)
    BY <2>2, <2>3, <2>4
  <2>6. Edits(p, first, r)
    BY <1>2, <2>5, FreshKeeps
  <2>7. Edits(p, again, r)
    BY <1>2, <2>2, <2>3, FreshKeeps
  <2>8. "Vary" \in DOMAIN p.hdr => Edits(p, more, r)
    <3> SUFFICES ASSUME "Vary" \in DOMAIN p.hdr PROVE Edits(p, more, r)
      OBVIOUS
    <3> DEFINE u == AppendValue(p, r, "Vary", "Origin")
    <3>1. Edits(p, u, r)
      BY <1>2, <2>4, AppendKeeps
    <3>2. Answers(u, r)
      BY <3>1 DEF Edits
    <3> HIDE DEF u
    <3>3. Edits(u, SetFresh(u, r, ks, vs), r)
      BY <2>2, <2>3, <3>2, FreshKeeps
    <3> QED
      BY <3>1, <3>3, EditsTwice DEF u
  <2> HIDE DEF first, again, more, p
  <2>9. Edits(p, answer, r)
    BY <2>6, <2>7, <2>8
  <2> USE DEF first, again, more, p, ks, vs
  <2>10. Respond(r, answer, IF in.origin = "none" \/ (ok /\ in.method # "OPTIONS")
                            THEN Passed(q) ELSE Answered(q))
    BY <1>7 DEF CORS
  <2> HIDE DEF answer, p
  <2>11. Made(answer)
    BY <1>3, <2>10
  <2> QED
    BY <2>9, <2>11 DEF p
<1>8. CASE Handler(r)
  <2>1. PICK k \in DOMAIN q.hdr :
          \E p \in {AppendValue(Response(r), r, k, "h"), WriteValue(Response(r), k, "h")} :
             Respond(r, p, [q EXCEPT !.writes = @ + 1])
    BY <1>8 DEF Handler
  <2>2. PICK p \in {AppendValue(Response(r), r, k, "h"), WriteValue(Response(r), k, "h")} :
             Respond(r, p, [q EXCEPT !.writes = @ + 1])
    BY <2>1
  <2>3. "h" \in Texts
    BY DEF Texts
  <2>4. Edits(Response(r), p, r)
    BY <1>2, <2>1, <2>2, <2>3, AppendKeeps, WriteKeeps
  <2>5. Made(p)
    BY <1>3, <2>2
  <2> QED
    BY <2>4, <2>5
<1> QED
  BY <1>5, <1>6, <1>7, <1>8

\* RequestID sets its header as the others do.
LEMMA IdOwn ==
    ASSUME Typed, Headed, NEW r \in Request, RequestID(r)
    PROVE  \E p : /\ Edits(Response(r), p, r) /\ heap' = p.heap
                  /\ want' = [want EXCEPT ![r] = p.want] /\ req'[r].hdr = p.hdr
<1> DEFINE p == SetFresh(Response(r), r, <<"X-Request-Id">>, <<"id">>)
<1>1. Busy(req[r]) /\ req[r] # Idle
  BY IdleIs DEF RequestID, In, Typed, LocalOK
<1>2. Answers(Response(r), r)
  BY <1>1, ResponseIs
<1>3. <<"X-Request-Id">> \in Seq(Texts) /\ <<"id">> \in Seq(Texts)
  BY DEF Texts
<1>4. Edits(Response(r), p, r)
  BY <1>2, <1>3, FreshKeeps
<1>5. PICK id : Goes(r, [Passed(req[r]) EXCEPT !.hdr = p.hdr, !.id = id, !.buf = <<>>])
  BY DEF RequestID, Goes
<1>6. req'[r] = [Passed(req[r]) EXCEPT !.hdr = p.hdr, !.id = id, !.buf = <<>>]
  BY <1>5, GoesOn
<1>7. heap' = p.heap /\ want' = [want EXCEPT ![r] = p.want]
  BY DEF RequestID
<1> HIDE DEF p
<1>8. req'[r].hdr = p.hdr
  BY <1>1, <1>6 DEF Busy, Locals, Passed
<1> QED
  BY <1>4, <1>7, <1>8

\* Every step leaves every request its own headers.
LEMMA HeadedStep == Typed /\ Headed /\ [Next]_vars => Headed'
<1> SUFFICES ASSUME Typed, Headed, [Next]_vars PROVE Headed'
  OBVIOUS
<1>1. ASSUME NEW r \in Request, Arrive(r) PROVE Headed'
  <2>1. OthersKeep(r) /\ UNCHANGED <<heap, want>> /\ req[r] = Idle
    BY <1>1, ArriveLocal
  <2>2. req'[r].hdr = <<>> /\ req'[r].pc = "frame"
    <3>1. PICK in \in Clients(chain) :
             req'[r] = [pc |-> "frame", at |-> 1, in |-> in, addr |-> in.peer,
                        id |-> <<>>, buf |-> <<>>, alg |-> "none", now |-> Never,
                        verdict |-> "none", hdr |-> <<>>, writes |-> 0]
      BY <1>1, ArriveLocal
    <3> QED
      BY <3>1
  <2>3. heap'[r] = <<>> /\ want'[r] = <<>>
    BY <2>1 DEF Headed
  <2>4. Own(<<>>, <<>>, <<>>, r)
    BY DEF Own
  <2>5. req'[r] # Idle
    BY <2>2, IdleIs
  <2> QED
    BY <2>1, <2>2, <2>3, <2>4, <2>5, HeadedKept DEF Headed
<1>2. ASSUME NEW r \in Request, Step(r) PROVE Headed'
  <2>1. OthersKeep(r) /\ Busy(req[r]) /\ req[r] # Idle /\ (req'[r] = Idle \/ Busy(req'[r]))
    BY <1>2, StepMoves, IdleIs
  <2>2. CASE Finish(r)
    <3>1. req'[r] = Idle /\ heap' = [heap EXCEPT ![r] = <<>>] /\ want' = [want EXCEPT ![r] = <<>>]
      BY <2>2 DEF Finish, Typed
    <3> QED
      BY <2>1, <3>1, HeadedKept DEF Headed
  <2>3. CASE SetHeader(r) \/ NoCache(r) \/ CORS(r) \/ Handler(r) \/ RequestID(r)
    <3>1. PICK p : /\ Edits(Response(r), p, r) /\ heap' = p.heap
                   /\ want' = [want EXCEPT ![r] = p.want] /\ req'[r].hdr = p.hdr
      BY <2>3, EditsOwn, IdOwn
    <3>2. req'[r] # Idle
      <4>1. LeavesToken(r)
        BY <2>3, ResponseSteps, IdSteps
      <4> QED
        BY <4>1, IdleIs DEF LeavesToken
    <3> QED
      BY <2>1, <3>1, <3>2, EditKept
  <2>4. CASE RealIP(r) \/ Draw(r) \/ LoadMemo(r) \/ Decode(r) \/ Verify(r) \/ Claims(r)
    <3>1. LeavesHeaders(r)
      BY <2>4, RealIPStep, IdSteps, LoadMemoIs, DecodeIs, VerifyIs, ClaimsIs
    <3>2. req'[r] # Idle
      <4>1. req'[r].pc # "idle"
        <5>1. CASE RealIP(r) \/ Draw(r)
          BY <5>1, RealIPStep, IdSteps DEF LeavesToken
        <5>2. CASE LoadMemo(r) \/ Decode(r)
          BY <5>2, LoadMemoIs, DecodeIs DEF Rejected, LoadsAlg, In
        <5>3. CASE Verify(r) \/ Claims(r)
          BY <5>3, VerifyIs, ClaimsIs DEF Rejected
        <5> QED
          BY <2>4, <5>1, <5>2, <5>3
      <4> QED
        BY <4>1, IdleIs
    <3> QED
      BY <2>1, <3>1, <3>2, HeadedKept DEF LeavesHeaders, Headed
  <2> QED
    BY <1>2, <2>2, <2>3, <2>4 DEF Step
<1>3. CASE Collect \/ UNCHANGED vars
  <2>1. UNCHANGED <<heap, want, req>>
    BY <1>3 DEF Collect, vars
  <2> QED
    BY <2>1 DEF Headed
<1> QED
  BY <1>1, <1>2, <1>3 DEF Next

\* No request has headers at first.
LEMMA HeadedInit == Init => Headed
BY DEF Init, Headed

\* The response headers of a request are its own, for any chain and any number of
\* requests and of writes by the handlers: what one adds or writes in place under a key
\* changes no other key and no other request (CORS, NoCache, SetHeader and RequestID,
\* whose values share an array).
THEOREM HeadersAreOwn == Spec => []HeadersIsolated
<1>1. Spec => [](Typed /\ Headed)
  BY TypedInit, TypedStep, HeadedInit, HeadedStep, PTL DEF Spec
<1>2. Typed /\ Headed => HeadersIsolated
  <2> SUFFICES ASSUME Typed, Headed, NEW r \in Request, Active(r)
               PROVE  /\ DOMAIN req[r].hdr = DOMAIN want[r]
                      /\ \A k \in DOMAIN want[r] : Text(Response(r), req[r].hdr[k]) = want[r][k]
    BY DEF HeadersIsolated
  <2>1. Own(heap[r], req[r].hdr, want[r], r)
    BY IdleIs DEF Active, Headed
  <2>2. Response(r).heap = heap
    BY DEF Response
  <2>3. ASSUME NEW k \in DOMAIN want[r] PROVE Text(Response(r), req[r].hdr[k]) = want[r][k]
    <3>1. SliceOK(heap[r], req[r].hdr[k], r) /\ Holds(heap[r], req[r].hdr[k], want[r][k])
      BY <2>1 DEF Own
    <3> QED
      BY <2>2, <3>1, TextIs
  <2> QED
    BY <2>1, <2>3 DEF Own
<1> QED
  BY <1>1, <1>2, PTL

-----------------------------------------------------------------------------
(* Addresses.                                                              *)

\* A set of positions has a least one.
LEMMA Least ==
    ASSUME NEW S, S \subseteq Nat, S # {}
    PROVE  \E i \in S : \A j \in S : i <= j
<1>1. PICK i \in S : \A j \in S : ~ (<<j, i>> \in OpToRel(<, Nat))
  BY NatLessThanWellFounded, WFMin
<1>2. ASSUME NEW j \in S PROVE i <= j
  <2>1. <<j, i>> \in Nat \X Nat
    OBVIOUS
  <2>2. ~ (j < i)
    BY <1>1, <2>1, Zenon DEF OpToRel
  <2> QED
    BY <2>1, <2>2
<1> QED
  BY <1>2

\* The ends of a set of positions.
Lowest(S) == CHOOSE i \in S : \A j \in S : i <= j
Highest(S) == CHOOSE i \in S : \A j \in S : i >= j

\* It has both, if it is within the positions of a sequence.
LEMMA Ends ==
    ASSUME NEW n \in Nat, NEW S, S \subseteq 1..n, S # {}
    PROVE  /\ Lowest(S) \in S /\ \A j \in S : Lowest(S) <= j
           /\ Highest(S) \in S /\ \A j \in S : Highest(S) >= j
<1>1. \E i \in S : \A j \in S : i <= j
  <2>1. S \subseteq Nat
    OBVIOUS
  <2> QED
    BY <2>1, Least
<1>2. \E i \in S : \A j \in S : i >= j
  <2> DEFINE R == {n - i : i \in S}
  <2>1. R \subseteq Nat /\ R # {}
    <3>1. \A i \in 1..n : n - i \in Nat
      OBVIOUS
    <3> QED
      BY <3>1
  <2>2. PICK k \in R : \A l \in R : k <= l
    <3> HIDE DEF R
    <3> QED
      BY <2>1, Least
  <2>3. PICK i \in S : k = n - i
    OBVIOUS
  <2>4. ASSUME NEW j \in S PROVE i >= j
    <3>1. n - i <= n - j
      BY <2>2, <2>3
    <3>2. i \in 1..n /\ j \in 1..n
      OBVIOUS
    <3> QED
      BY ONLY <3>1, <3>2, n \in Nat
  <2> QED
    BY <2>4
<1> QED
  BY <1>1, <1>2 DEF Lowest, Highest

\* An end is the only one.
LEMMA EndsAre ==
    ASSUME NEW n \in Nat, NEW S, S \subseteq 1..n, NEW i \in S
    PROVE  /\ (\A j \in S : i <= j) => Lowest(S) = i
           /\ (\A j \in S : i >= j) => Highest(S) = i
<1>1. /\ Lowest(S) \in S /\ \A j \in S : Lowest(S) <= j
      /\ Highest(S) \in S /\ \A j \in S : Highest(S) >= j
  BY Ends
<1>2. Lowest(S) \in 1..n /\ Highest(S) \in 1..n /\ i \in 1..n
  BY <1>1
<1>3. Lowest(S) <= i /\ i <= Highest(S)
  BY <1>1, <1>2
<1>4. (\A j \in S : i <= j) => i <= Lowest(S)
  BY <1>1
<1>5. (\A j \in S : i >= j) => Highest(S) <= i
  BY <1>1, <1>2
<1> QED
  BY <1>2, <1>3, <1>4, <1>5

\* The hops among the first k that are addresses, and those that nobody vouches for.
Hops(hops, k) == {i \in 1..k : Valid(hops[i])}
Outside(hops, k, trusted) == {i \in Hops(hops, k) : hops[i] \notin trusted}

\* What the walk from the right is to find among them.
Found(hops, k, trusted) ==
    IF Hops(hops, k) = {} THEN "bad"
    ELSE IF Outside(hops, k, trusted) # {} THEN hops[Highest(Outside(hops, k, trusted))]
    ELSE hops[Lowest(Hops(hops, k))]

\* One hop more.
LEMMA FoundNext ==
    ASSUME NEW hops, NEW trusted, NEW k \in Nat \ {0}
    PROVE  /\ Found(hops, 0, trusted) = "bad"
           /\ Found(hops, k, trusted) =
                IF Valid(hops[k]) /\ hops[k] \notin trusted THEN hops[k]
                ELSE IF Valid(hops[k]) /\ ~ Valid(Found(hops, k - 1, trusted)) THEN hops[k]
                ELSE Found(hops, k - 1, trusted)
<1> DEFINE G == Hops(hops, k)
           O == Outside(hops, k, trusted)
           H == Hops(hops, k - 1)
           P == Outside(hops, k - 1, trusted)
           old == Found(hops, k - 1, trusted)
           new == Found(hops, k, trusted)
<1>1. Found(hops, 0, trusted) = "bad"
  BY DEF Found, Hops
<1>2. /\ k - 1 \in Nat /\ H \subseteq 1..(k - 1) /\ P \subseteq H /\ G \subseteq 1..k /\ O \subseteq G
      /\ \A i \in 1..k : i = k \/ i \in 1..(k - 1)
      /\ \A i \in 1..(k - 1) : i \in 1..k /\ i <= k /\ i # k
  BY DEF Hops, Outside
<1>3. G = IF Valid(hops[k]) THEN H \cup {k} ELSE H
  BY <1>2 DEF Hops
<1>4. O = IF Valid(hops[k]) /\ hops[k] \notin trusted THEN P \cup {k} ELSE P
  BY <1>2, <1>3 DEF Outside
<1>5. Valid(old) <=> H # {}
  <2>1. H = {} => old = "bad"
    BY DEF Found
  <2>2. ASSUME H # {}, P # {} PROVE Valid(old)
    <3>1. Highest(P) \in P
      BY <1>2, <2>2, Ends
    <3>2. old = hops[Highest(P)]
      BY <2>2 DEF Found
    <3> QED
      BY <1>2, <3>1, <3>2 DEF Hops
  <2>3. ASSUME H # {}, P = {} PROVE Valid(old)
    <3>1. Lowest(H) \in H
      BY <1>2, <2>3, Ends
    <3>2. old = hops[Lowest(H)]
      BY <2>3 DEF Found
    <3> QED
      BY <3>1, <3>2 DEF Hops
  <2> QED
    BY <2>1, <2>2, <2>3 DEF Valid
<1>6. CASE Valid(hops[k]) /\ hops[k] \notin trusted
  <2>1. O = P \cup {k} /\ k \in O /\ \A j \in O : k >= j
    BY <1>2, <1>4, <1>6
  <2>2. Highest(O) = k
    BY <1>2, <2>1, EndsAre
  <2>3. new = hops[k]
    BY <1>2, <2>1, <2>2 DEF Found
  <2> QED
    BY <1>1, <1>6, <2>3
<1>7. CASE Valid(hops[k]) /\ hops[k] \in trusted /\ H = {}
  <2>1. G = {k} /\ O = {}
    BY <1>2, <1>3, <1>4, <1>7
  <2>2. Lowest(G) = k
    BY <1>2, <2>1, EndsAre
  <2>3. new = hops[k]
    BY <2>1, <2>2 DEF Found
  <2> QED
    BY <1>1, <1>5, <1>7, <2>3
<1>8. CASE Valid(hops[k]) /\ hops[k] \in trusted /\ H # {}
  <2>1. G = H \cup {k} /\ O = P
    BY <1>3, <1>4, <1>8
  <2>2. Lowest(H) \in H /\ \A j \in H : Lowest(H) <= j
    BY <1>2, <1>8, Ends
  <2>3. Lowest(H) \in G /\ \A j \in G : Lowest(H) <= j
    BY <1>2, <2>1, <2>2
  <2>4. Lowest(G) = Lowest(H)
    BY <1>2, <2>3, EndsAre
  <2>5. new = old
    BY <1>8, <2>1, <2>4 DEF Found
  <2> QED
    BY <1>1, <1>5, <1>8, <2>5
<1>9. CASE ~ Valid(hops[k])
  <2>1. new = old
    BY <1>3, <1>4, <1>9 DEF Found
  <2> QED
    BY <1>1, <1>9, <2>1
<1> QED
  BY <1>6, <1>7, <1>8, <1>9

\* The walk from the right finds just that.
LEMMA WalkIs ==
    ASSUME NEW hops, Len(hops) \in Nat, NEW trusted
    PROVE  Rightmost(hops, trusted) = Found(hops, Len(hops), trusted)
<1> DEFINE n == Len(hops)
           Back(k, prev) == IF Valid(hops[k]) /\ hops[k] \notin trusted THEN hops[k]
                            ELSE IF Valid(hops[k]) /\ ~ Valid(prev) THEN hops[k] ELSE prev
           Def(g) == [k \in 0..n |-> IF k = 0 THEN "bad" ELSE Back(k, g[k - 1])]
           f == [k \in 0..n |-> Found(hops, k, trusted)]
           g == CHOOSE h : h = Def(h)
<1>1. Rightmost(hops, trusted) = g[n]
  BY DEF Rightmost
<1>2. n \in Nat
  OBVIOUS
<1>3. /\ Found(hops, 0, trusted) = "bad"
      /\ \A k \in 1..n : Found(hops, k, trusted) = Back(k, Found(hops, k - 1, trusted))
  BY FoundNext
<1> HIDE DEF n, Back
<1>4. \A k \in 0..n : k # 0 => k \in 1..n /\ k - 1 \in 0..n
  BY <1>2
<1>5. f = Def(f)
  BY <1>3, <1>4
<1>6. g = Def(g)
  BY <1>5
<1> HIDE DEF g
<1>7. g[0] = "bad" /\ \A k \in 1..n : g[k] = Back(k, g[k - 1])
  BY <1>2, <1>6
<1> DEFINE Bad == {k \in 0..n : g[k] # Found(hops, k, trusted)}
<1>8. Bad = {}
  <2> SUFFICES ASSUME Bad # {} PROVE FALSE
    OBVIOUS
  <2>1. PICK k \in Bad : \A j \in Bad : k <= j
    <3>1. Bad \subseteq Nat
      BY <1>2
    <3> HIDE DEF Bad
    <3> QED
      BY <3>1, Least
  <2>2. k # 0
    BY <1>3, <1>7
  <2>3. k \in 1..n /\ k - 1 \in 0..n /\ ~ (k <= k - 1)
    BY <1>2, <1>4, <2>2
  <2>4. g[k - 1] = Found(hops, k - 1, trusted)
    BY <2>1, <2>3
  <2> QED
    BY <1>3, <1>7, <2>3, <2>4
<1>9. n \in 0..n
  BY <1>2
<1> QED
  BY <1>1, <1>8, <1>9 DEF n

\* S is G, b positions on.
Shifts(S, G, b) == /\ S = {} <=> G = {}
                   /\ G # {} => Lowest(S) = b + Lowest(G)
                   /\ G # {} => Highest(S) = b + Highest(G)

\* Positions that are shifted have shifted ends.
LEMMA Shifted ==
    ASSUME NEW b \in Nat, NEW m \in Nat, NEW S, NEW G, S \subseteq 1..(b + m), G \subseteq 1..m,
           \A i \in 1..m : i \in G <=> b + i \in S, \A j \in S : b < j
    PROVE  Shifts(S, G, b)
<1>1. \A j \in S : j - b \in G /\ b + (j - b) = j
  <2> SUFFICES ASSUME NEW j \in S PROVE j - b \in G /\ b + (j - b) = j
    OBVIOUS
  <2>1. j - b \in 1..m /\ b + (j - b) = j
    <3>1. j \in 1..(b + m) /\ b < j
      OBVIOUS
    <3> QED
      BY <3>1
  <2> QED
    BY <2>1
<1>2. \A i \in G : b + i \in S
  OBVIOUS
<1>3. ASSUME G # {} PROVE Lowest(S) = b + Lowest(G) /\ Highest(S) = b + Highest(G)
  <2> DEFINE lo == Lowest(G)
             hi == Highest(G)
  <2>1. /\ lo \in G /\ \A i \in G : lo <= i
        /\ hi \in G /\ \A i \in G : hi >= i
    BY <1>3, Ends
  <2> HIDE DEF lo, hi
  <2>2. b + lo \in S /\ b + hi \in S /\ lo \in Nat /\ hi \in Nat
    BY <1>2, <2>1
  <2>3. ASSUME NEW j \in S PROVE b + lo <= j /\ b + hi >= j
    <3>1. lo <= j - b /\ hi >= j - b
      BY <1>1, <2>1
    <3>2. j \in 1..(b + m)
      OBVIOUS
    <3> QED
      BY <2>2, <3>1, <3>2
  <2>4. Lowest(S) = b + lo /\ Highest(S) = b + hi
    <3>1. b + m \in Nat
      OBVIOUS
    <3> QED
      BY <2>2, <2>3, <3>1, EndsAre
  <2> QED
    BY <2>4 DEF lo, hi
<1> QED
  BY <1>1, <1>2, <1>3 DEF Shifts

\* The hop that a header gives, or "bad".
From(in, trusted) == IF in.xff # <<>> THEN selectXFFRightmost(in.xff, trusted) ELSE in.realIP
Keeps(in, trusted) == \/ trusted # {} /\ in.peer \notin trusted
                      \/ ~ Valid(From(in, trusted))

\* The last hops, by their positions among all.
LEMMA LastHopsAre ==
    ASSUME NEW xff \in Seq(STRING)
    PROVE  \E b \in 0..Len(xff) :
              /\ Len(xff) \in Nat /\ Len(LastHops(xff)) = Len(xff) - b
              /\ \A i \in 1..(Len(xff) - b) : LastHops(xff)[i] = xff[b + i]
              /\ \A i \in 1..Len(xff) : i > Len(xff) - MaxHops <=> b < i
<1> DEFINE n == Len(xff)
           b == IF n > MaxHops THEN n - MaxHops ELSE 0
<1>1. n \in Nat /\ MaxHops \in Nat \ {0} /\ b \in 0..n
  BY GatesAssumption DEF GatesAssumption
<1>2. \A i \in 1..n : i > n - MaxHops <=> b < i
  BY <1>1
<1>3. LastHops(xff) = SubSeq(xff, 1 + b, n)
  BY DEF LastHops
<1> HIDE DEF b
<1>4. \A i \in (1 + b)..n : xff[i] \in STRING
  BY <1>1
<1>5. /\ 1 + b \in Int /\ n \in Int
      /\ Len(SubSeq(xff, 1 + b, n)) = (IF 1 + b <= n THEN n - (1 + b) + 1 ELSE 0)
      /\ \A i \in 1..(n - (1 + b) + 1) : SubSeq(xff, 1 + b, n)[i] = xff[(1 + b) + i - 1]
  BY <1>1, <1>4, SubSeqProperties
<1>6. /\ n - (1 + b) + 1 = n - b /\ (IF 1 + b <= n THEN n - (1 + b) + 1 ELSE 0) = n - b
      /\ \A i \in 1..(n - b) : (1 + b) + i - 1 = b + i
  BY <1>1
<1> HIDE DEF n
<1>7. Len(LastHops(xff)) = n - b /\ \A i \in 1..(n - b) : LastHops(xff)[i] = xff[b + i]
  BY <1>3, <1>5, <1>6
<1> QED
  BY <1>1, <1>2, <1>7 DEF n

\* RealIP chooses the client's address.
LEMMA ClientIs ==
    ASSUME NEW in, in.xff \in Seq(STRING), NEW trusted
    PROVE  (IF Keeps(in, trusted) THEN in.peer ELSE From(in, trusted)) = ClientAddr(in, trusted)
<1> DEFINE xff == in.xff
           n == Len(xff)
           hops == LastHops(xff)
           S == {i \in 1..n : i > n - MaxHops /\ Valid(xff[i])}
           P == {i \in S : xff[i] \notin trusted}
           far == trusted # {} /\ in.peer \notin trusted
<1>1. ClientAddr(in, trusted) =
        CASE far -> in.peer
          [] ~ far /\ n = 0 -> IF Valid(in.realIP) THEN in.realIP ELSE in.peer
          [] OTHER -> IF S = {} THEN in.peer
                      ELSE IF trusted # {} /\ P # {} THEN xff[Highest(P)] ELSE xff[Lowest(S)]
  BY DEF ClientAddr, Lowest, Highest
<1>2. n \in Nat /\ (n = 0 <=> xff = <<>>)
  OBVIOUS
<1>3. CASE far
  BY <1>1, <1>3 DEF Keeps
<1>4. CASE ~ far /\ n = 0
  BY <1>1, <1>2, <1>4 DEF Keeps, From
<1>5. CASE ~ far /\ n # 0
  <2>1. PICK b \in 0..n :
          /\ Len(hops) = n - b /\ \A i \in 1..(n - b) : hops[i] = xff[b + i]
          /\ \A i \in 1..n : i > n - MaxHops <=> b < i
    BY LastHopsAre
  <2> DEFINE m == n - b
             G == Hops(hops, m)
             O == Outside(hops, m, trusted)
             from == selectXFFRightmost(xff, trusted)
  <2>2. m \in Nat /\ b \in Nat /\ n = b + m /\ \A i \in 1..m : b + i \in 1..n /\ b < b + i
    BY <1>2
  <2>3. /\ S \subseteq 1..n /\ P \subseteq 1..n /\ G \subseteq 1..m /\ O \subseteq 1..m
        /\ \A j \in S : b < j
        /\ \A i \in 1..m : i \in G <=> b + i \in S
        /\ \A i \in 1..m : i \in O <=> b + i \in P
    BY <2>1, <2>2 DEF Hops, Outside
  <2> HIDE DEF S, P, G, O, hops, n, m
  <2>4. /\ S = {} <=> G = {}
        /\ G # {} => Lowest(S) = b + Lowest(G)
    <3>1. Shifts(S, G, b)
      BY <2>2, <2>3, Shifted
    <3> QED
      BY <3>1 DEF Shifts
  <2>5. \A j \in P : b < j
    BY <2>3 DEF P
  <2>6. /\ P = {} <=> O = {}
        /\ O # {} => Highest(P) = b + Highest(O)
    <3>1. Shifts(P, O, b)
      BY <2>2, <2>3, <2>5, Shifted
    <3> QED
      BY <3>1 DEF Shifts
  <2>7. G # {} => Lowest(G) \in G /\ Lowest(G) \in 1..m /\ hops[Lowest(G)] = xff[Lowest(S)]
    BY <2>1, <2>2, <2>3, <2>4, Ends DEF m
  <2>8. O # {} => Highest(O) \in O /\ Highest(O) \in 1..m /\ hops[Highest(O)] = xff[Highest(P)]
    BY <2>1, <2>2, <2>3, <2>6, Ends DEF m
  <2>9. from = IF G = {} THEN "bad" ELSE IF trusted # {} /\ O # {} THEN hops[Highest(O)]
               ELSE hops[Lowest(G)]
    <3>1. CASE trusted # {}
      <4>1. from = Rightmost(hops, trusted)
        BY <3>1 DEF selectXFFRightmost, hops
      <4>2. Rightmost(hops, trusted) = Found(hops, m, trusted)
        BY <2>1, <2>2, WalkIs DEF m
      <4> QED
        BY <3>1, <4>1, <4>2 DEF Found, G, O
    <3>2. CASE trusted = {}
      <4>1. from = IF SelectInSeq(hops, Valid) = 0 THEN "bad" ELSE hops[SelectInSeq(hops, Valid)]
        BY <3>2 DEF selectXFFRightmost, hops
      <4>2. SelectInSeq(hops, Valid) = IF G # {} THEN Lowest(G) ELSE 0
        BY <2>1 DEF SelectInSeq, Min, Lowest, G, Hops, m
      <4>3. G # {} => Lowest(G) # 0
        BY <2>7
      <4> QED
        BY <3>2, <4>1, <4>2, <4>3
    <3> QED
      BY <3>1, <3>2
  <2>10. Valid(from) <=> G # {}
    <3>1. ASSUME G # {}, NEW i \in G PROVE Valid(hops[i])
      BY DEF G, Hops
    <3>2. O \subseteq G
      BY DEF O, G, Outside
    <3> QED
      BY <2>7, <2>8, <2>9, <3>1, <3>2 DEF Valid
  <2>11. From(in, trusted) = from
    BY <1>2, <1>5 DEF From
  <2> HIDE DEF from
  <2> QED
    BY <1>1, <1>5, <2>4, <2>6, <2>7, <2>8, <2>9, <2>10, <2>11 DEF Keeps
<1> QED
  BY <1>3, <1>4, <1>5

\* RealIP stores the address that it chose.
LEMMA RealIPStores ==
    ASSUME Typed, NEW r \in Request, RealIP(r)
    PROVE  LET q == req[r]
           IN  /\ q.at \in Of("RealIP") /\ req'[r].at = q.at + 1 /\ req'[r].in = q.in
               /\ q.addr = q.in.peer => req'[r].addr = ClientAddr(q.in, chain[q.at].trusted)
<1> DEFINE q == req[r]
           in == q.in
           trusted == chain[q.at].trusted
           u == [Passed(q) EXCEPT !.addr = IF Keeps(in, trusted) THEN q.addr ELSE From(in, trusted)]
<1>1. Busy(q) /\ In(r, "RealIP")
  BY IdleIs DEF RealIP, In, Typed, LocalOK
<1>2. q.at \in Of("RealIP")
  BY <1>1, ChainsAssumption DEF In, Of, Busy, Typed, ChainsAssumption
<1>3. in.xff \in Seq(STRING)
  BY <1>1, ClientsAssumption DEF ClientsAssumption, Busy, Typed
<1>4. Goes(r, u)
  BY DEF RealIP, Goes, Keeps, From, opts
<1>5. req'[r] = u
  BY <1>4, GoesOn
<1>6. /\ u.at = q.at + 1 /\ u.in = in
      /\ u.addr = IF Keeps(in, trusted) THEN q.addr ELSE From(in, trusted)
  BY <1>1 DEF Busy, Locals, Passed
<1>7. (IF Keeps(in, trusted) THEN in.peer ELSE From(in, trusted)) = ClientAddr(in, trusted)
  BY <1>3, ClientIs
<1> QED
  BY <1>2, <1>5, <1>6, <1>7

\* A request that goes on with its address, past a middleware that is not RealIP.
Carries(r) ==
    LET q == req[r]
        u == req'[r]
    IN  u.addr = q.addr /\ (u.at = q.at \/ (u.at = q.at + 1 /\ q.at \notin Of("RealIP")))

\* No other step changes the address.
LEMMA AddrCarried ==
    ASSUME Typed, NEW r \in Request, Step(r), ~ RealIP(r), ~ Finish(r),
           req[r].pc = "claims" => AtJWT(req[r])
    PROVE  Carries(r)
<1> DEFINE q == req[r]
<1>1. Busy(q)
  BY StepMoves
<1>2. ASSUME NEW name, In(r, name), name # "RealIP" PROVE q.at \notin Of("RealIP")
  BY <1>2 DEF In, Of
<1>3. CASE SetHeader(r) \/ NoCache(r) \/ CORS(r) \/ Handler(r)
  <2>1. PICK p, u : /\ Goes(r, [u EXCEPT !.hdr = p.hdr])
                    /\ u \in {Passed(q), Answered(q), [q EXCEPT !.writes = @ + 1]}
    <3>1. CASE SetHeader(r) \/ NoCache(r)
      BY <3>1 DEF SetHeader, NoCache, Respond, Goes
    <3>2. CASE CORS(r)
      BY <3>2 DEF CORS, Respond, Goes
    <3>3. CASE Handler(r)
      BY <3>3 DEF Handler, Respond, Goes
    <3> QED
      BY <1>3, <3>1, <3>2, <3>3
  <2>2. req'[r] = [u EXCEPT !.hdr = p.hdr]
    BY <2>1, GoesOn
  <2>3. q.at \notin Of("RealIP")
    <3>1. CASE SetHeader(r) \/ NoCache(r) \/ CORS(r)
      BY <1>2, <3>1 DEF SetHeader, NoCache, CORS
    <3>2. CASE Handler(r)
      BY <1>1, <3>2, ChainsAssumption DEF Handler, Of, Busy, Typed, ChainsAssumption
    <3> QED
      BY <1>3, <3>1, <3>2
  <2>4. CASE u = Passed(q)
    BY <1>1, <2>2, <2>3, <2>4 DEF Passed, Busy, Locals, Carries
  <2>5. CASE u = Answered(q)
    BY <1>1, <2>2, <2>5 DEF Answered, Busy, Locals, Carries
  <2>6. CASE u = [q EXCEPT !.writes = @ + 1]
    BY <1>1, <2>2, <2>6 DEF Busy, Locals, Carries
  <2> QED
    BY <2>1, <2>4, <2>5, <2>6
<1>4. CASE Draw(r)
  <2>1. PICK v : Goes(r, [q EXCEPT !.buf = v])
    BY <1>4 DEF Draw, Goes
  <2>2. req'[r] = [q EXCEPT !.buf = v]
    BY <2>1, GoesOn
  <2> QED
    BY <1>1, <2>2 DEF Busy, Locals, Carries
<1>5. CASE RequestID(r)
  <2>1. PICK h, id : Goes(r, [Passed(q) EXCEPT !.hdr = h, !.id = id, !.buf = <<>>])
    BY <1>5 DEF RequestID, Goes
  <2>2. req'[r] = [Passed(q) EXCEPT !.hdr = h, !.id = id, !.buf = <<>>]
    BY <2>1, GoesOn
  <2>3. q.at \notin Of("RealIP")
    BY <1>2, <1>5 DEF RequestID
  <2> QED
    BY <1>1, <2>2, <2>3 DEF Passed, Busy, Locals, Carries
<1>6. CASE LoadMemo(r) \/ Decode(r)
  <2>1. Reject(r) \/ \E v : Goes(r, [q EXCEPT !.alg = v])
    BY <1>6 DEF LoadMemo, Decode, Goes
  <2>2. CASE Reject(r)
    <3>1. Goes(r, [Answered(q) EXCEPT !.verdict = "reject"])
      BY <1>6, <2>2 DEF Reject, Goes, LoadMemo, Decode
    <3>2. req'[r] = [Answered(q) EXCEPT !.verdict = "reject"]
      BY <3>1, GoesOn
    <3> QED
      BY <1>1, <3>2 DEF Answered, Busy, Locals, Carries
  <2>3. CASE \E v : Goes(r, [q EXCEPT !.alg = v])
    <3>1. PICK v : Goes(r, [q EXCEPT !.alg = v])
      BY <2>3
    <3>2. req'[r] = [q EXCEPT !.alg = v]
      BY <3>1, GoesOn
    <3> QED
      BY <1>1, <3>2 DEF Busy, Locals, Carries
  <2> QED
    BY <2>1, <2>2, <2>3
<1>7. CASE Verify(r)
  <2>1. \/ Goes(r, [Answered(q) EXCEPT !.verdict = "reject"])
        \/ Goes(r, [q EXCEPT !.pc = "claims"])
        \/ Goes(r, [q EXCEPT !.verdict = "panic", !.pc = "done"])
    BY <1>7 DEF Verify, VerifyHMAC, VerifyPublic, Goes, Reject
  <2>2. \/ req'[r] = [Answered(q) EXCEPT !.verdict = "reject"]
        \/ req'[r] = [q EXCEPT !.pc = "claims"]
        \/ req'[r] = [q EXCEPT !.verdict = "panic", !.pc = "done"]
    BY <2>1, GoesOn
  <2> QED
    BY <1>1, <2>2 DEF Answered, Busy, Locals, Carries
<1>8. CASE Claims(r)
  <2>1. PICK now : \/ Goes(r, [Answered(q) EXCEPT !.verdict = "reject", !.now = now])
                   \/ Goes(r, [Passed(q) EXCEPT !.verdict = "accept", !.now = now])
    BY <1>8 DEF Claims, Goes
  <2>2. \/ req'[r] = [Answered(q) EXCEPT !.verdict = "reject", !.now = now]
        \/ req'[r] = [Passed(q) EXCEPT !.verdict = "accept", !.now = now]
    BY <2>1, GoesOn
  <2>3. q.at \notin Of("RealIP")
    BY <1>8 DEF Claims, AtJWT, Of
  <2> QED
    BY <1>1, <2>2, <2>3 DEF Answered, Passed, Busy, Locals, Carries
<1> QED
  BY <1>3, <1>4, <1>5, <1>6, <1>7, <1>8 DEF Step

\* A request has the peer's address up to RealIP, and the client's past it.
AddrKnown(r) ==
    \A k \in Of("RealIP") : req[r].addr = IF req[r].at > k THEN ClientAddr(req[r].in, chain[k].trusted)
                                          ELSE req[r].in.peer
Addressed == \A r \in Request : req[r] # Idle => AddrKnown(r)

\* Every step keeps what is known of the addresses.
LEMMA AddressedStep == Typed /\ Verdicts /\ Addressed /\ [Next]_vars => Addressed'
<1> SUFFICES ASSUME Typed, Verdicts, Addressed, [Next]_vars PROVE Addressed'
  OBVIOUS
<1>0. ASSUME NEW r \in Request, OthersKeep(r), req'[r] # Idle => AddrKnown(r)' PROVE Addressed'
  BY <1>0 DEF OthersKeep, Addressed, AddrKnown, Of
<1>1. ASSUME NEW r \in Request, Arrive(r) PROVE Addressed'
  <2>1. OthersKeep(r)
    BY <1>1, ArriveLocal
  <2>2. req'[r].addr = req'[r].in.peer /\ req'[r].at = 1
    <3>1. PICK in \in Clients(chain) :
             req'[r] = [pc |-> "frame", at |-> 1, in |-> in, addr |-> in.peer,
                        id |-> <<>>, buf |-> <<>>, alg |-> "none", now |-> Never,
                        verdict |-> "none", hdr |-> <<>>, writes |-> 0]
      BY <1>1, ArriveLocal
    <3> QED
      BY <3>1
  <2>3. \A k \in Of("RealIP")' : ~ (1 > k)
    BY DEF Of
  <2> QED
    BY <1>0, <2>1, <2>2, <2>3 DEF AddrKnown
<1>2. ASSUME NEW r \in Request, Step(r) PROVE Addressed'
  <2>1. /\ OthersKeep(r) /\ Busy(req[r]) /\ req[r] # Idle
        /\ req'[r] = Idle \/ (Busy(req'[r]) /\ req'[r].in = req[r].in)
    BY <1>2, StepMoves, IdleIs
  <2>2. AddrKnown(r) /\ TokenKnown(r) /\ chain' = chain /\ Of("RealIP")' = Of("RealIP")
        /\ req[r].at \in Nat /\ Of("RealIP") \subseteq Int
    BY <2>1 DEF Addressed, Verdicts, OthersKeep, Of, Busy
  <2>3. CASE RealIP(r)
    <3>1. /\ req[r].at \in Of("RealIP") /\ req'[r].at = req[r].at + 1 /\ req'[r].in = req[r].in
          /\ req[r].addr = req[r].in.peer =>
                req'[r].addr = ClientAddr(req[r].in, chain[req[r].at].trusted)
      BY <2>3, RealIPStores
    <3>2. req[r].addr = req[r].in.peer
      BY <2>2, <3>1 DEF AddrKnown
    <3>3. \A k \in Of("RealIP") : k = req[r].at
      BY <2>1, <3>1, ChainsAssumption DEF Typed, ChainsAssumption, Of
    <3>4. AddrKnown(r)'
      BY <2>2, <3>1, <3>2, <3>3 DEF AddrKnown
    <3> QED
      BY <1>0, <2>1, <3>4
  <2>4. CASE Finish(r)
    BY <1>0, <2>1, <2>4 DEF Finish, Typed
  <2>5. CASE ~ RealIP(r) /\ ~ Finish(r) /\ req'[r] # Idle
    <3>1. Carries(r)
      BY <1>2, <2>2, <2>5, AddrCarried DEF TokenKnown
    <3>2. \A k \in Of("RealIP") : req'[r].at > k <=> req[r].at > k
      BY <2>2, <3>1 DEF Carries
    <3>3. req'[r].addr = req[r].addr /\ req'[r].in = req[r].in
      BY <2>1, <2>5, <3>1 DEF Carries
    <3>4. AddrKnown(r)'
      BY <2>2, <3>2, <3>3 DEF AddrKnown
    <3> QED
      BY <1>0, <2>1, <3>4
  <2>6. CASE req'[r] = Idle
    BY <1>0, <2>1, <2>6
  <2> QED
    BY <2>3, <2>4, <2>5, <2>6
<1>3. CASE Collect \/ UNCHANGED vars
  <2>1. UNCHANGED <<chain, req>>
    BY <1>3 DEF Collect, vars
  <2> QED
    BY <2>1 DEF Addressed, AddrKnown, Of
<1> QED
  BY <1>1, <1>2, <1>3 DEF Next

\* There is no address before the first request.
LEMMA AddressedInit == Init => Addressed
BY DEF Init, Addressed

\* RemoteAddr is the client's address once RealIP has run, for any X-Forwarded-For, any
\* trusted ranges and any maxXFFHops (RealIP and selectXFFRightmost).
THEOREM RealClientFound == Spec => []RealClient
<1>1. Spec => [](Typed /\ Verdicts /\ Addressed)
  BY TypedInit, TypedStep, VerdictsInit, VerdictsStep, AddressedInit, AddressedStep, PTL DEF Spec
<1>2. Addressed => RealClient
  <2> SUFFICES ASSUME Addressed, NEW r \in Request, NEW k \in Of("RealIP"), Active(r), req[r].at > k
               PROVE  req[r].addr = ClientAddr(req[r].in, chain[k].trusted)
    BY DEF RealClient
  <2>1. req[r] # Idle
    BY IdleIs DEF Active
  <2> QED
    BY <2>1 DEF Addressed, AddrKnown
<1> QED
  BY <1>1, <1>2, PTL
=============================================================================
