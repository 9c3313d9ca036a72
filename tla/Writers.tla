------------------------------ MODULE Writers ------------------------------
(***************************************************************************)
(* The middleware that wraps the ResponseWriter: Logger's statusRecorder,  *)
(* RecovererWithLogger's recovererWriter and Compress's gzipResponseWriter *)
(* (middleware/logger.go, recoverer.go, compress.go), in any order.        *)
(*                                                                         *)
(* A goroutine serves requests one after the other with wrappers from the  *)
(* pools.  The handler writes to the innermost wrapper, each call passes   *)
(* through the layers to net/http's response (external), and the layers    *)
(* unwind one by one when the handler returns or panics.  A body byte is   *)
(* its number and how often it was compressed; sizes are scaled down.      *)
(* Beside the response the model keeps the one the same handler calls      *)
(* would have made without any middleware.                                 *)
(***************************************************************************)
EXTENDS Naturals, Sequences

CONSTANTS
    Chains,           \* the orders of layers tried, outermost first
    minCompressSize,  \* the smallest body that is compressed (1024)
    sniffBufSize,     \* the bytes held back before deciding (8192)
    Codes,            \* the status codes handlers send, some of them 1xx
    ChunkSizes,       \* the sizes of their writes
    MaxCalls,         \* bound: calls a handler makes
    MaxServed         \* bound: requests served

\* The middleware that wraps.
LayerKinds == {"logger", "recoverer", "compress"}

ASSUME SizesAssumption ==
    /\ minCompressSize \in Nat /\ sniffBufSize \in Nat /\ minCompressSize <= sniffBufSize
    /\ Chains \subseteq Seq(LayerKinds) /\ Codes \subseteq 100..999 /\ ChunkSizes \subseteq Nat
    /\ MaxCalls \in Nat /\ MaxServed \in Nat

VARIABLES
    chain,    \* the middleware of the Mux
    layers,   \* the wrappers of this request, outermost first
    resp,     \* net/http's response
    bare,     \* what the handler's calls make of a response without wrappers
    phase,    \* idle, run (the handler), return or panic (unwinding), done
    ctype,    \* whether the handler's Content-Type is compressed at rest
    calls, written,   \* the handler's calls and bytes so far
    status,   \* how the handler set its status: unset, explicit, or late, that is,
              \* by WriteHeader after its first Write or Flush had sent a 200
    panicked, \* the handler panicked
    logged,   \* the statuses of the log lines of this request
    pools,    \* the wrappers waiting for reuse, per kind
    served

writersVars == <<chain, layers, resp, bare, phase, ctype, calls, written, status, panicked,
                 logged, pools, served>>

\* Every wrapper's fields; each kind uses its own.
Blank == [status |-> 0, wroteHeader |-> FALSE, started |-> FALSE,
          decided |-> FALSE, skip |-> FALSE, buf |-> <<>>]

\* status 0: nothing sent.  encoding is the header map's Content-Encoding, sent what
\* of it went out with the status line.
NewResponse == [status |-> 0, body |-> <<>>, encoding |-> "", sent |-> ""]

WritersInit ==
    /\ chain \in Chains
    /\ layers = <<>> /\ resp = NewResponse /\ bare = NewResponse
    /\ phase = "idle" /\ ctype = "plain" /\ calls = 0 /\ written = 0
    /\ status = "unset" /\ panicked = FALSE /\ logged = <<>>
    /\ pools = [k \in LayerKinds |-> {}] /\ served = 0

-----------------------------------------------------------------------------
(* What a layer asks of the next one: WriteHeader(code) unless code is 0,  *)
(* Write(bs) if write, Flush if flush, in this order.  Successive writes   *)
(* are one, as every layer treats them alike.                              *)

Nothing == [code |-> 0, write |-> FALSE, bs |-> <<>>, flush |-> FALSE]

Final(code) == code # 0 /\ (code \notin 100..199 \/ code = 101)
Sends(c) == Final(c.code) \/ c.write \/ c.flush

\* net/http's response: the first final status wins, 1xx pass at any time before.
ServerWriteHeader(R, code) ==
    IF R.status = 0 /\ Final(code) THEN [R EXCEPT !.status = code, !.sent = R.encoding] ELSE R
Serve(R, c) ==
    LET S == ServerWriteHeader(R, c.code)
        T == IF c.write \/ c.flush THEN ServerWriteHeader(S, 200) ELSE S
    IN  [T EXCEPT !.body = @ \o c.bs]

Byte(k) == [n |-> k, gz |-> 0]
Gz(bs)  == [k \in 1..Len(bs) |-> [bs[k] EXCEPT !.gz = @ + 1]]
GzipEnd == [n |-> 0, gz |-> 1]          \* the trailer gzip.Writer.Close writes
ErrText == [n |-> 500, gz |-> 0]        \* http.Error's body

-----------------------------------------------------------------------------
(* The layers: what a wrapper w becomes when it is asked c, and what it    *)
(* asks of the next one.  A statusRecorder has no Write of its own; its    *)
(* ReadFrom passes bytes on likewise.                                      *)

\* Mutant: Early Hints count as the start of the response.
StartedAlways(w, c) == IF c # Nothing THEN [w EXCEPT !.started = TRUE] ELSE w

\* recovererWriter: a final status, a write or a flush starts the response.
recovererStarted(w, c) == IF Sends(c) THEN [w EXCEPT !.started = TRUE] ELSE w

\* Mutant: every status replaces the one recorded before (the defect MM-2026-0254).
RecordLast(w, code) ==
    IF Final(code) THEN [w EXCEPT !.wroteHeader = TRUE, !.status = code] ELSE w

\* The first final status is recorded (statusRecorder) or kept (gzipResponseWriter).
RecordFirst(w, code) ==
    IF ~ w.wroteHeader /\ Final(code)
    THEN [w EXCEPT !.wroteHeader = TRUE, !.status = code] ELSE w

\* Whether the bytes held, at most sniffBufSize of them at that point, are compressed.
Skips(held, encoding) ==
    ctype = "compressed" \/ encoding # "" \/ Len(held) < minCompressSize

\* A decided gzipResponseWriter passes bytes on, through gzip unless it skips.
Encoded(w, bs) == IF w.skip THEN bs ELSE Gz(bs)

\* gzipResponseWriter.commit: decide, send headers and status, then the bytes held,
\* also when there are none.
commit(w, encoding, held, flush) ==
    LET d == [w EXCEPT !.decided = TRUE, !.skip = Skips(held, encoding), !.buf = <<>>]
    IN  [w |-> d, encoding |-> IF d.skip THEN encoding ELSE "gzip",
         c |-> [code |-> w.status, write |-> TRUE, bs |-> Encoded(d, held), flush |-> flush]]

\* gzipResponseWriter: the status is kept, and bytes are held while there is room for
\* them and no flush.
gzipAsked(w, encoding, c) ==
    LET v == RecordFirst(RecordFirst(w, c.code), IF c.write THEN 200 ELSE 0)
        held == v.buf \o c.bs
    IN  IF v.decided
        THEN [w |-> v, encoding |-> encoding,
              c |-> [c EXCEPT !.code = 0, !.bs = Encoded(v, @)]]
        ELSE IF Len(held) <= sniffBufSize /\ ~ c.flush
        THEN [w |-> [v EXCEPT !.buf = held], encoding |-> encoding, c |-> Nothing]
        ELSE commit(v, encoding, held, c.flush)

AskLayer(layer, encoding, c) ==
    CASE layer.kind = "logger" ->
           [w |-> RecordFirst(layer.w, c.code), encoding |-> encoding, c |-> c]
      [] layer.kind = "recoverer" ->
           [w |-> recovererStarted(layer.w, c), encoding |-> encoding, c |-> c]
      [] layer.kind = "compress" -> gzipAsked(layer.w, encoding, c)
      [] layer.kind = "aside" -> [w |-> layer.w, encoding |-> encoding, c |-> c]

\* The layers L around the response R after the innermost one is asked c: each asks
\* the next, a[i] being what layer i is asked and, for i = 0, the response.
Call(L, R, c) ==
    LET n == Len(L)
        a[i \in 0..n] == IF i = n THEN [w |-> Blank, encoding |-> R.encoding, c |-> c]
                         ELSE AskLayer(L[i + 1], a[i + 1].encoding, a[i + 1].c)
    IN  [L |-> [i \in 1..n |-> [L[i] EXCEPT !.w = a[i - 1].w]],
         R |-> Serve([R EXCEPT !.encoding = a[0].encoding], a[0].c)]

\* gzipResponseWriter.close: what it asks of the next layer, the trailer last.
Trailer(c) == [c EXCEPT !.write = TRUE, !.bs = Append(@, GzipEnd)]
close(w, encoding) ==
    LET s == IF w.decided THEN [w |-> w, encoding |-> encoding, c |-> Nothing]
             ELSE commit(w, encoding, w.buf, FALSE)
    IN  IF s.w.skip THEN s ELSE [s EXCEPT !.c = Trailer(@)]

-----------------------------------------------------------------------------
(* A request.                                                              *)

Store(st) == layers' = st.L /\ resp' = st.R

\* What each middleware sets on the wrapper it takes from its pool.
Prepared(kind, w) ==
    CASE kind = "logger"    -> [w EXCEPT !.status = 200, !.wroteHeader = FALSE]
      [] kind = "recoverer" -> [w EXCEPT !.started = FALSE]
      [] kind = "compress"  -> [w EXCEPT !.buf = <<>>]

\* A pool gives a wrapper back or makes a new one.  Compress steps aside for a client
\* that does not accept gzip.
Begin ==
    /\ phase \in {"idle", "done"} /\ served < MaxServed
    /\ \E gzip \in BOOLEAN :
       \E ws \in [1..Len(chain) -> {Blank} \cup UNION {pools[k] : k \in LayerKinds}] :
          /\ \A i \in 1..Len(chain) :
                ws[i] \in {Blank} \cup IF gzip \/ chain[i] # "compress" THEN pools[chain[i]] ELSE {}
          /\ layers' = [i \in 1..Len(chain) |->
                          IF gzip \/ chain[i] # "compress"
                          THEN [kind |-> chain[i], w |-> Prepared(chain[i], ws[i])]
                          ELSE [kind |-> "aside", w |-> Blank]]
          /\ pools' = [k \in LayerKinds |-> pools[k] \ {ws[i] : i \in 1..Len(chain)}]
    /\ ctype' \in {"plain", "compressed"}
    /\ resp' = NewResponse /\ bare' = NewResponse /\ phase' = "run"
    /\ calls' = 0 /\ written' = 0 /\ status' = "unset" /\ panicked' = FALSE /\ logged' = <<>>
    /\ UNCHANGED <<chain, served>>

\* The handler calls its ResponseWriter.
HandlerCalls(c) ==
    /\ phase = "run" /\ calls < MaxCalls /\ calls' = calls + 1
    /\ Store(Call(layers, resp, c))
    /\ bare' = Serve(bare, c)
    /\ UNCHANGED <<chain, phase, ctype, panicked, logged, pools, served>>

HandlerWriteHeader ==
    /\ \E code \in Codes :
          /\ HandlerCalls([Nothing EXCEPT !.code = code])
          /\ status' = IF ~ Final(code) \/ status = "explicit" THEN status
                       ELSE IF bare.status = 0 THEN "explicit" ELSE "late"
    /\ UNCHANGED written

HandlerWrite ==
    /\ \E n \in ChunkSizes :
          /\ HandlerCalls([Nothing EXCEPT !.write = TRUE,
                                          !.bs = [k \in 1..n |-> Byte(written + k)]])
          /\ written' = written + n
    /\ UNCHANGED status

HandlerFlush ==
    /\ HandlerCalls([Nothing EXCEPT !.flush = TRUE])
    /\ UNCHANGED <<written, status>>

HandlerReturns ==
    /\ phase = "run" /\ phase' = "return"
    /\ UNCHANGED <<chain, layers, resp, bare, ctype, calls, written, status, panicked,
                   logged, pools, served>>

HandlerPanics ==
    /\ phase = "run" /\ phase' = "panic" /\ panicked' = TRUE
    /\ UNCHANGED <<chain, layers, resp, bare, ctype, calls, written, status,
                   logged, pools, served>>

-----------------------------------------------------------------------------
(* Unwinding: the innermost layer is left first.                           *)

Inner == layers[Len(layers)]
Outer(L) == SubSeq(L, 1, Len(L) - 1)
In(kind) == phase \in {"return", "panic"} /\ Len(layers) > 0 /\ Inner.kind = kind
Recycle(kind, w) == pools' = [pools EXCEPT ![kind] = @ \cup {w}]
Aside == UNCHANGED <<chain, bare, ctype, calls, written, status, panicked, served>>

\* Logger reads the recorded status, clears the recorder and logs.  There is no
\* defer: a panic passes it without a log line, and the recorder is lost.
LeaveLogger ==
    /\ In("logger") /\ layers' = Outer(layers)
    /\ IF phase = "return"
       THEN /\ logged' = Append(logged, Inner.w.status)
            /\ Recycle("logger", [Inner.w EXCEPT !.status = 0, !.wroteHeader = FALSE])
       ELSE UNCHANGED <<logged, pools>>
    /\ UNCHANGED <<resp, phase>> /\ Aside

\* RecovererWithLogger's deferred function: http.Error through its own writer, if it
\* recovers a panic and the response has not started.
LeaveRecoverer ==
    /\ In("recoverer")
    /\ IF phase = "panic" /\ ~ Inner.w.started
       THEN LET st == Call(layers, resp, [code |-> 500, write |-> TRUE, bs |-> <<ErrText>>,
                                          flush |-> FALSE])
            IN  layers' = Outer(st.L) /\ resp' = st.R
       ELSE layers' = Outer(layers) /\ UNCHANGED resp
    /\ Recycle("recoverer", [Inner.w EXCEPT !.started = FALSE])
    /\ phase' = "return" /\ UNCHANGED logged /\ Aside

\* What closing the innermost layer makes of the layers outside it.
Closed == LET s == close(Inner.w, resp.encoding)
          IN  Call(Outer(layers), [resp EXCEPT !.encoding = s.encoding], s.c)

\* Mutant: the wrapper goes back to the pool as the request left it.
LeaveCompressUnreset ==
    /\ In("compress") /\ Store(Closed)
    /\ Recycle("compress", close(Inner.w, resp.encoding).w)
    /\ UNCHANGED <<phase, logged>> /\ Aside

\* Compress's deferred function, on return and on panic.
LeaveCompress ==
    /\ In("compress") /\ Store(Closed)
    /\ Recycle("compress", Blank)
    /\ UNCHANGED <<phase, logged>> /\ Aside

\* A Compress that had stepped aside.
LeaveAside ==
    /\ In("aside") /\ layers' = Outer(layers)
    /\ UNCHANGED <<resp, phase, logged, pools>> /\ Aside

\* net/http ends the response, or drops the connection when a panic reaches it.
Finish ==
    /\ phase \in {"return", "panic"} /\ layers = <<>>
    /\ resp' = IF phase = "return" THEN ServerWriteHeader(resp, 200) ELSE resp
    /\ phase' = "done" /\ served' = served + 1
    /\ UNCHANGED <<chain, layers, bare, ctype, calls, written, status, panicked, logged, pools>>

WritersNext ==
    \/ Begin \/ HandlerWriteHeader \/ HandlerWrite \/ HandlerFlush
    \/ HandlerReturns \/ HandlerPanics
    \/ LeaveLogger \/ LeaveRecoverer \/ LeaveCompress \/ LeaveAside \/ Finish

WritersSpec == WritersInit /\ [][WritersNext]_writersVars

-----------------------------------------------------------------------------
(* Properties.                                                             *)

\* What a client that honours Content-Encoding reads: the bytes themselves, or
\* those of a complete gzip stream; {} if the framing is broken.
Decoded(R) ==
    LET b == R.body
    IN  IF R.sent = ""
        THEN IF \A k \in 1..Len(b) : b[k].gz = 0 THEN {b} ELSE {}
        ELSE IF /\ b # <<>> /\ b[Len(b)] = GzipEnd
                /\ \A k \in 1..Len(b) : b[k].gz = 1
                /\ \A k \in 1..(Len(b) - 1) : b[k] # GzipEnd
             THEN {[k \in 1..(Len(b) - 1) |-> Byte(b[k].n)]} ELSE {}

\* The layers are transparent in every order: when the handler returns, the client
\* gets the status and the bytes it would have got without them, in order, none
\* lost at the sniff buffer's edge or by a flush, and framed as Content-Encoding
\* says; after a panic in mid-response, what the handler wrote and nothing more.
Transparent ==
    phase = "done" /\ (~ panicked \/ bare.status # 0) =>
        \/ /\ resp.status = (IF bare.status = 0 THEN 200 ELSE bare.status)
           /\ Decoded(resp) = {bare.body}
        \/ panicked /\ ~ \E i \in 1..Len(chain) : chain[i] = "recoverer"

\* A handler that panics before it has sent anything, Early Hints apart, is answered
\* with one 500 and its text, unless Compress is between the Recoverer and the
\* handler (see PanicGets500).
PanicAnswered ==
    phase = "done" /\ panicked /\ bare.status = 0 =>
      \A i \in 1..Len(chain) :
        (chain[i] = "recoverer" /\ \A j \in i..Len(chain) : chain[j] # "compress") =>
          resp.status = 500 /\ Decoded(resp) = {<<ErrText>>}

\* The logged status is the one the client got, whatever the order of Logger and
\* the others and however the handler ended, if the handler does not set a status
\* after its response has started.
LoggedIsSent ==
    phase = "done" /\ status # "late" => \A k \in 1..Len(logged) : logged[k] = resp.status

\* RecovererWithLogger "writes a plain 500 response ... only if the wrapped handler
\* has not already committed a response (sent a final status or written a body
\* byte)", so a handler that had not gets the 500 wherever Compress is.
PanicGets500 ==
    phase = "done" /\ panicked /\ bare.status = 0
    /\ (\E i \in 1..Len(chain) : chain[i] = "recoverer") => resp.status = 500
=============================================================================
